---------------------------- MODULE Spec2Model ----------------------------
(***************************************************************************)
(* A model of the breakpad processor's fast source line resolver           *)
(* (src/processor/fast_source_line_resolver.cc).                           *)
(*                                                                         *)
(* MemAddr is uint64_t in the source.  The model keeps the modular         *)
(* arithmetic but scales the width down: addresses are 0..MaxAddr and      *)
(* every MemAddr operation is taken modulo Modulus = MaxAddr + 1.          *)
(***************************************************************************)
EXTENDS Integers, Sequences, FiniteSets, TLC

VARIABLES
  functions_,            \* Module::functions_       : set of Function records
  public_symbols_,       \* Module::public_symbols_  : set of PublicSymbol records
  windows_frame_info_,   \* Module::windows_frame_info_[type] : set of range nodes
  files_,                \* Module::files_           : set of known file ids
  inline_origins_,       \* Module::inline_origins_  : set of known origin ids
  frame,                 \* the StackFrame handed to LookupAddress / Find*FrameInfo
  inlined_frames,        \* the deque handed to LookupAddress (a sequence)
  entry,                 \* frame and inlined_frames as they were when the last call began
  used,                  \* the maps the last call queried
  wfi,                   \* what the last FindWindowsFrameInfo call returned and built
  op,                    \* the last operation called
  c_query,               \* containment test: <<address, function_base, function_size>>
  c_answer,              \* containment test: the outcome ("unset" before the test)
  cfi_initial_rules_,    \* Module::cfi_initial_rules_ : set of range entries
  cfi_delta_rules_,      \* Module::cfi_delta_rules_   : set of keyed entries
  cfi,                   \* what the last FindCFIFrameInfo call returned and parsed
  memory_buffer,         \* LoadMapFromMemory arguments: the buffer and its size
  is_corrupt_,           \* Module::is_corrupt_
  map_offsets,           \* where each Static*Map member points, from mem_buffer
  loaded,                \* what LoadMapFromMemory returned ("unset" before the call)
  frames_,               \* StackwalkerAddressList::frames_ : the supplied addresses
  frame_count_,          \* StackwalkerAddressList::frame_count_
  next_frame_index_,     \* StackwalkerAddressList::next_frame_index_
  walk,                  \* the calls made on the walker and what each returned
  dump,                  \* the minidump handed to Process, as its accessors answer
  supplier_interrupt,    \* TestSymbolSupplier::interrupt_
  known_modules,         \* the modules the symbolizer has asked the supplier for
  last,                  \* the last Process call on dump: status, call stacks, requests
  prev_status,           \* the status the Process call before that one returned
  tally,                 \* Process calls on dump, and supplier requests per module
  barrier_count,         \* barrier->count (unsigned)
  barrier_mutex,         \* barrier->mutex : the thread holding it, 0 when free
  barrier_cond,          \* barrier->cond  : the threads blocked on it
  pc,                    \* where each thread is in pthread_barrier_wait
  barrier                \* the count given to pthread_barrier_init, and what the
                         \* calls made since did: entered, decrements, wake-ups,
                         \* returns

resolverVars == <<functions_, public_symbols_, windows_frame_info_, files_,
                  inline_origins_, frame, inlined_frames, entry, used, wfi, op>>
containVars == <<c_query, c_answer>>
cfiVars == <<cfi_initial_rules_, cfi_delta_rules_, cfi>>
loadVars == <<memory_buffer, is_corrupt_, map_offsets, loaded>>
walkerVars == <<frames_, frame_count_, next_frame_index_, walk>>
processorVars == <<dump, supplier_interrupt, known_modules, last, prev_status, tally>>
barrierVars == <<barrier_count, barrier_mutex, barrier_cond, pc, barrier>>
extraVars == <<cfiVars, loadVars, walkerVars, processorVars, barrierVars>>
vars == <<resolverVars, containVars, extraVars>>

---------------------------------------------------------------------------
(* Bounds of the model. *)

MaxAddr == 4
MaxFuncs == 2
MaxPublics == 2
MaxInlineDepth == 3
MaxStackWin == 1
MaxCfiRanges == 1
MaxDeltas == 3
WordBits == 8
BufferSlack == 10
MaxFrames == 3
MaxWalkCalls == 5
MaxThreads == 2
MaxProcessCalls == 2
MaxBarrierThreads == 3
MaxBarrierCalls == 5
CountBits == 3

Modulus == MaxAddr + 1
Addrs == 0..MaxAddr

\* uint64_t addition and subtraction (MemAddr), at the model's width.
AddrAdd(a, b) == (a + b) % Modulus
AddrSub(a, b) == (a - b + Modulus) % Modulus


---------------------------------------------------------------------------
(* Values.  Names are pairs <<kind, n>> so that every symbol of a module   *)
(* has a name of its own; EmptyName is the empty string of a fresh frame.  *)

EmptyName == <<"", 0>>
OmittedName == <<"<name omitted>", 0>>
FuncName(base) == <<"FUNC", base>>
PublicName(address) == <<"PUBLIC", address>>
OriginName(id) == <<"INLINE_ORIGIN", id>>
FileName(id) == <<"FILE", id>>

\* WindowsFrameInfo::StackInfoTypes and the validity masks.
STACK_INFO_FPO == "STACK_INFO_FPO"
STACK_INFO_FRAME_DATA == "STACK_INFO_FRAME_DATA"
STACK_INFO_UNKNOWN == "STACK_INFO_UNKNOWN"
StackInfoTypes == {STACK_INFO_FRAME_DATA, STACK_INFO_FPO}
VALID_NONE == {}
VALID_PARAMETER_SIZE == {"VALID_PARAMETER_SIZE"}
VALID_ALL == {"VALID_PARAMETER_SIZE", "VALID_OTHER"}

\* A half-open range [base, base + size) as the set of its addresses; a range
\* map stores only ranges whose high endpoint base + size - 1 does not wrap.
RangeSet(base, size) == {a \in Addrs : base <= a /\ a < base + size}
Ranges == {r \in Addrs \X (1..MaxAddr) : r[1] + r[2] <= Modulus}

---------------------------------------------------------------------------
(* The static maps (processor/static_range_map, static_address_map,        *)
(* static_contained_range_map), as section 4.1 of the specification        *)
(* describes them.  A lookup returns the out-parameters of the C++ call:   *)
(* found is the bool result, the other fields are the values written.      *)

NoEntry == [found |-> FALSE]

\* StaticRangeMap::RetrieveRange: the stored range that contains address.
RetrieveRange(map, address) ==
  LET hit == {e \in map : address \in RangeSet(e.base, e.size)}
  IN  IF hit = {} THEN NoEntry
      ELSE LET e == CHOOSE x \in hit : TRUE
           IN  [found |-> TRUE, entry |-> e, base |-> e.base, size |-> e.size]

\* StaticRangeMap::RetrieveNearestRange: the stored range with the greatest
\* base <= address, whether or not it contains address.
RetrieveNearestRange(map, address) ==
  LET below == {e \in map : e.base <= address}
  IN  IF below = {} THEN NoEntry
      ELSE LET e == CHOOSE x \in below : \A y \in below : y.base <= x.base
           IN  [found |-> TRUE, entry |-> e, base |-> e.base, size |-> e.size]

\* StaticAddressMap::Retrieve: the stored point with the greatest address <= address.
Retrieve(map, address) ==
  LET below == {e \in map : e.address <= address}
  IN  IF below = {} THEN NoEntry
      ELSE LET e == CHOOSE x \in below : \A y \in below : y.address <= x.address
           IN  [found |-> TRUE, entry |-> e, address |-> e.address]

\* The nodes of a contained range map that contain address, as a sequence
\* from the deepest node to the shallowest one.
RECURSIVE DeepestFirst(_)
DeepestFirst(nodes) ==
  IF nodes = {} THEN <<>>
  ELSE LET n == CHOOSE x \in nodes : \A y \in nodes : y.depth <= x.depth
       IN  <<n>> \o DeepestFirst(nodes \ {n})

\* StaticContainedRangeMap::RetrieveRanges: the entries of all ranges that
\* contain address, innermost entry first (the order ConstructInlineFrames
\* relies on and section 4.5 states); the empty sequence when the call
\* returns false.
RetrieveRanges(map, address) ==
  LET hit == DeepestFirst({n \in map : address \in RangeSet(n.base, n.size)})
  IN  IF hit = <<>> THEN <<>> ELSE [i \in 1..Len(hit) |-> hit[i].entry]

\* StaticContainedRangeMap::RetrieveRange: the entry of the most specific
\* range that contains address.
RetrieveContainedRange(map, address) ==
  LET hit == RetrieveRanges(map, address)
  IN  IF hit = <<>> THEN NoEntry ELSE [found |-> TRUE, entry |-> hit[1]]


---------------------------------------------------------------------------
(* FastSourceLineResolver::Module::LookupAddress and ConstructInlineFrames *)

\* A range test that compares against the wrapped sum base + size.
CoversBySum(address, function_base, function_size) ==
  address >= function_base /\ address < AddrAdd(function_base, function_size)

\* The range test of LookupAddress (line 92) and FindWindowsFrameInfo
\* (line 311): address >= function_base && address - function_base <
\* function_size, in MemAddr arithmetic.
Covers(address, function_base, function_size) ==
  address >= function_base /\ AddrSub(address, function_base) < function_size

\* A bound that also lets through a symbol at the base of the function found.
PublicAtOrAbove(func_found, public_address, function_base) ==
  ~func_found \/ public_address >= function_base

\* No bound at all on the PUBLIC symbol.
PublicUnbounded(func_found, public_address, function_base) == TRUE

\* The test that bounds a PUBLIC symbol by the function found (lines 117, 324):
\* !func_ptr || public_address > function_base.
PublicIsTighter(func_found, public_address, function_base) ==
  ~func_found \/ public_address > function_base

\* Lines 160-166: the module base plus the start of the first range of the
\* inline record for which address >= first && address < first + second, the
\* sum taken in MemAddr arithmetic; the bare module base when no range passes.
RECURSIVE InlineFunctionBase(_, _, _)
InlineFunctionBase(module_base, address, inline_ranges) ==
  IF inline_ranges = <<>> THEN module_base
  ELSE LET range == Head(inline_ranges)
       IN  IF address >= range[1] /\ address < AddrAdd(range[1], range[2])
           THEN AddrAdd(module_base, range[1])
           ELSE InlineFunctionBase(module_base, address, Tail(inline_ranges))

\* Lines 136-167: the frame built for one inline record, a copy of the calling
\* frame with the origin's name, the call site and the inline trust.
NewInlineFrame(f, address, in) ==
  [f EXCEPT
     !.function_name = IF in.origin_id \in inline_origins_
                       THEN OriginName(in.origin_id) ELSE OmittedName,
     !.source_line = in.call_site_line,
     !.source_file_name = IF in.has_call_site_file_id /\ in.call_site_file_id \in files_
                          THEN FileName(in.call_site_file_id) ELSE @,
     !.function_base = InlineFunctionBase(f.module_base, address, in.inline_ranges),
     !.trust = "FRAME_TRUST_INLINE"]

\* The shift with the parent's (file, line) taken from the front of the deque.
ShiftFromFront(f, frames) ==
  IF frames = <<>> THEN [frame |-> f, inlined_frames |-> frames]
  ELSE [frame |-> [f EXCEPT !.source_file_name = frames[1].source_file_name,
                            !.source_line = frames[1].source_line],
        inlined_frames |->
          [i \in 1..Len(frames) |->
             [frames[i] EXCEPT
                !.source_file_name = IF i = 1 THEN f.source_file_name
                                     ELSE frames[i - 1].source_file_name,
                !.source_line = IF i = 1 THEN f.source_line
                                ELSE frames[i - 1].source_line]]]

\* The shift that gives the parent the last frame's (file, line) and leaves
\* every inline frame with the call site of its own record.
ShiftParentOnly(f, frames) ==
  IF frames = <<>> THEN [frame |-> f, inlined_frames |-> frames]
  ELSE [frame |-> [f EXCEPT !.source_file_name = frames[Len(frames)].source_file_name,
                            !.source_line = frames[Len(frames)].source_line],
        inlined_frames |-> frames]

\* Lines 175-184: the parent's (file, line) becomes that of the last frame of
\* the deque, and the saved pair is swapped down the deque from its front.
ShiftFileAndLine(f, frames) ==
  IF frames = <<>> THEN [frame |-> f, inlined_frames |-> frames]
  ELSE [frame |-> [f EXCEPT !.source_file_name = frames[Len(frames)].source_file_name,
                            !.source_line = frames[Len(frames)].source_line],
        inlined_frames |->
          [i \in 1..Len(frames) |->
             [frames[i] EXCEPT
                !.source_file_name = IF i = 1 THEN f.source_file_name
                                     ELSE frames[i - 1].source_file_name,
                !.source_line = IF i = 1 THEN f.source_line
                                ELSE frames[i - 1].source_line]]]

\* ConstructInlineFrames with each new frame pushed to the front of the deque.
ConstructInlineFramesPushFront(f, address, inline_map, frames) ==
  LET inline_ptrs == RetrieveRanges(inline_map, address)
      n == Len(inline_ptrs)
  IN  IF inline_ptrs = <<>> THEN [frame |-> f, inlined_frames |-> frames]
      ELSE ShiftFileAndLine(f,
             [i \in 1..n |-> NewInlineFrame(f, address, inline_ptrs[n + 1 - i])]
               \o frames)

\* ConstructInlineFrames (lines 125-185).
ConstructInlineFrames(f, address, inline_map, frames) ==
  LET inline_ptrs == RetrieveRanges(inline_map, address)
  IN  IF inline_ptrs = <<>> THEN [frame |-> f, inlined_frames |-> frames]
      ELSE ShiftFileAndLine(f,
             frames \o [i \in 1..Len(inline_ptrs) |->
                          NewInlineFrame(f, address, inline_ptrs[i])])

\* The function's module-relative base stored without the module base.
FillFromFunctionRelative(f, func, function_base) ==
  [f EXCEPT !.function_name = func.name,
            !.function_base = function_base,
            !.is_multiple = func.is_multiple]

\* Lines 93-96: the frame named after the function found.
FillFromFunction(f, func, function_base) ==
  [f EXCEPT !.function_name = func.name,
            !.function_base = AddrAdd(f.module_base, function_base),
            !.is_multiple = func.is_multiple]

\* Lines 98-110: the frame with the source line that covers address, if any.
FillFromLine(f, func, address) ==
  LET line == RetrieveRange(func.lines, address)
  IN  IF ~line.found THEN f
      ELSE [f EXCEPT
              !.source_file_name = IF line.entry.source_file_id \in files_
                                   THEN FileName(line.entry.source_file_id) ELSE @,
              !.source_line = line.entry.line,
              !.source_line_base = AddrAdd(f.module_base, line.base)]

\* Lines 118-121: the frame named after the public symbol found.
FillFromPublic(f, public_symbol, public_address) ==
  [f EXCEPT !.function_name = public_symbol.name,
            !.function_base = AddrAdd(f.module_base, public_address),
            !.is_multiple = public_symbol.is_multiple]

\* LookupAddress (lines 71-123): the frame and the deque it leaves, and the
\* maps it queried.  want_inlines is false when inlined_frames is a null pointer.
LookupAddressResult(f, frames, want_inlines) ==
  LET address == AddrSub(f.instruction, f.module_base)
      near == RetrieveNearestRange(functions_, address)
  IN  IF near.found /\ Covers(address, near.base, near.size)
      THEN LET named == FillFromLine(FillFromFunction(f, near.entry, near.base),
                                     near.entry, address)
               built == IF want_inlines
                        THEN ConstructInlineFrames(named, address, near.entry.inlines, frames)
                        ELSE [frame |-> named, inlined_frames |-> frames]
           IN  [frame |-> built.frame, inlined_frames |-> built.inlined_frames,
                used |-> {"functions_", "lines"}
                           \cup (IF want_inlines THEN {"inlines"} ELSE {})]
      ELSE LET pub == Retrieve(public_symbols_, address)
           IN  IF pub.found
                  /\ PublicIsTighter(near.found, pub.address,
                                     IF near.found THEN near.base ELSE 0)
               THEN [frame |-> FillFromPublic(f, pub.entry, pub.address),
                     inlined_frames |-> frames,
                     used |-> {"functions_", "public_symbols_"}]
               ELSE [frame |-> f, inlined_frames |-> frames,
                     used |-> {"functions_", "public_symbols_"}]

---------------------------------------------------------------------------
(* FastSourceLineResolver::CopyWFI and Module::FindWindowsFrameInfo *)

\* new WindowsFrameInfo() (line 282): an empty record, nothing valid.
EmptyWindowsFrameInfo ==
  [type_ |-> STACK_INFO_UNKNOWN, valid |-> VALID_NONE, prolog_size |-> 0,
   epilog_size |-> 0, parameter_size |-> 0, saved_register_size |-> 0,
   local_size |-> 0, max_stack_size |-> 0, allocates_base_pointer |-> FALSE,
   program_string |-> ""]

\* CopyWFI (lines 189-219): the stored type and the stored fields after the
\* two ints type_ and valid; the constructor called marks every field valid.
CopyWFI(raw) ==
  [type_ |-> raw.type_, valid |-> VALID_ALL, prolog_size |-> raw.prolog_size,
   epilog_size |-> raw.epilog_size, parameter_size |-> raw.parameter_size,
   saved_register_size |-> raw.saved_register_size, local_size |-> raw.local_size,
   max_stack_size |-> raw.max_stack_size,
   allocates_base_pointer |-> raw.allocates_base_pointer,
   program_string |-> raw.program_string]

\* The STACK WIN lookup with the FPO map asked first.
RetrieveStackWinFpoFirst(address) ==
  LET fpo == RetrieveContainedRange(windows_frame_info_[STACK_INFO_FPO], address)
  IN  IF fpo.found THEN fpo
      ELSE RetrieveContainedRange(windows_frame_info_[STACK_INFO_FRAME_DATA], address)

\* Lines 291-297: the STACK WIN record for address, FRAME_DATA before FPO.
RetrieveStackWin(address) ==
  LET frame_data == RetrieveContainedRange(windows_frame_info_[STACK_INFO_FRAME_DATA],
                                           address)
  IN  IF frame_data.found THEN frame_data
      ELSE RetrieveContainedRange(windows_frame_info_[STACK_INFO_FPO], address)

\* The parameter size copied and every field marked valid.
FromFunctionAllValid(result, function) ==
  [result EXCEPT !.parameter_size = function.parameter_size,
                 !.valid = VALID_ALL]

\* Lines 312-314: the function's parameter size and its validity bit.
FromFunction(result, function) ==
  [result EXCEPT !.parameter_size = function.parameter_size,
                 !.valid = @ \cup VALID_PARAMETER_SIZE]

\* FindWindowsFrameInfo (lines 279-330): returned is false for a null return
\* value; result is the record the call built, returned or not.
FindWindowsFrameInfoResult(f) ==
  LET address == AddrSub(f.instruction, f.module_base)
      stack_win == RetrieveStackWin(address)
      near == RetrieveNearestRange(functions_, address)
      pub == Retrieve(public_symbols_, address)
  IN  IF stack_win.found
      THEN [returned |-> TRUE, result |-> CopyWFI(stack_win.entry),
            used |-> {"windows_frame_info_"}]
      ELSE IF near.found /\ Covers(address, near.base, near.size)
      THEN [returned |-> TRUE,
            result |-> FromFunction(EmptyWindowsFrameInfo, near.entry),
            used |-> {"windows_frame_info_", "functions_"}]
      ELSE IF pub.found
              /\ PublicIsTighter(near.found, pub.address,
                                 IF near.found THEN near.base ELSE 0)
      THEN [returned |-> FALSE,
            result |-> [EmptyWindowsFrameInfo EXCEPT
                          !.parameter_size = pub.entry.parameter_size],
            used |-> {"windows_frame_info_", "functions_", "public_symbols_"}]
      ELSE [returned |-> FALSE, result |-> EmptyWindowsFrameInfo,
            used |-> {"windows_frame_info_", "functions_", "public_symbols_"}]


---------------------------------------------------------------------------
(* FastSourceLineResolver::Module::FindCFIFrameInfo                        *)

\* A CFIFrameInfo is the rules it holds: a function from register names to
\* expressions.  Registers and expressions are pairs <<kind, n>>.
EmptyCFIFrameInfo == [r \in {} |-> <<"", 0>>]

\* ParseCFIRuleSet(rule_set, frame_info).  A rule set string is modelled by
\* what its parse does: rules are the rules the parser hands to frame_info
\* (for a malformed string, those that precede the malformed token) and ok
\* is the bool the parse returns.  A rule handed to frame_info replaces the
\* rule frame_info held for that register.
ParseCFIRuleSet(rule_set, frame_info) ==
  [ok |-> rule_set.ok,
   info |-> [r \in (DOMAIN frame_info) \cup (DOMAIN rule_set.rules) |->
               IF r \in DOMAIN rule_set.rules THEN rule_set.rules[r]
               ELSE frame_info[r]]]

\* StaticMap::end(): the position past the greatest key.
MapEnd == Modulus

\* StaticMap::lower_bound(key): the position of the first entry whose key is
\* not less than key.  A position is the key of its entry.
lower_bound(map, key) ==
  LET at_or_above == {e.key : e \in {x \in map : x.key >= key}}
  IN  IF at_or_above = {} THEN MapEnd
      ELSE CHOOSE k \in at_or_above : \A j \in at_or_above : k <= j

\* The loop condition of line 358 with the bound taken as exclusive.
DeltaBelowAddress(delta, address) == delta /= MapEnd /\ delta < address

\* The loop condition of line 358.
DeltaInReach(delta, address) == delta /= MapEnd /\ delta <= address

\* The loop of lines 358-361: rules is the CFIFrameInfo so far, applied the
\* keys of the delta rules parsed so far, delta the iterator.
RECURSIVE ApplyDeltaRules(_, _, _, _)
ApplyDeltaRules(rules, applied, delta, address) ==
  IF DeltaInReach(delta, address)
  THEN ApplyDeltaRules(
         ParseCFIRuleSet((CHOOSE e \in cfi_delta_rules_ : e.key = delta).rules,
                         rules).info,
         Append(applied, delta),
         lower_bound(cfi_delta_rules_, delta + 1),
         address)
  ELSE [returned |-> TRUE, rules |-> rules, applied |-> applied,
        used |-> {"cfi_initial_rules_", "cfi_delta_rules_"}]

\* return nullptr of lines 344 and 351.
NoCFIFrameInfo ==
  [returned |-> FALSE, rules |-> EmptyCFIFrameInfo, applied |-> <<>>,
   used |-> {"cfi_initial_rules_"}]

\* FindCFIFrameInfo that goes on to the delta rules whatever the parse of
\* the initial rules returned.
FindCFIFrameInfoUnchecked(f) ==
  LET address == AddrSub(f.instruction, f.module_base)
      initial == RetrieveRange(cfi_initial_rules_, address)
  IN  IF ~initial.found THEN NoCFIFrameInfo
      ELSE ApplyDeltaRules(
             ParseCFIRuleSet(initial.entry.rules, EmptyCFIFrameInfo).info,
             <<>>, lower_bound(cfi_delta_rules_, initial.base), address)

\* FindCFIFrameInfo: returned tells whether the result is non-null, rules is
\* the CFIFrameInfo returned, applied the keys of the delta rules handed to
\* ParseCFIRuleSet, in the order of the calls.
FindCFIFrameInfoResult(f) ==
  LET address == AddrSub(f.instruction, f.module_base)
      initial == RetrieveRange(cfi_initial_rules_, address)
  IN  IF ~initial.found THEN NoCFIFrameInfo
      ELSE LET parsed == ParseCFIRuleSet(initial.entry.rules, EmptyCFIFrameInfo)
           IN  IF ~parsed.ok THEN NoCFIFrameInfo
               ELSE ApplyDeltaRules(parsed.info, <<>>,
                      lower_bound(cfi_delta_rules_, initial.base), address)

---------------------------------------------------------------------------
(* FastSourceLineResolver::Module::LoadMapFromMemory                       *)
(*                                                                         *)
(* uint64_t and size_t are WordBits wide in the model; the sizes of the    *)
(* C++ types are those of the source.                                      *)

SizeofBool == 1
SizeofUint64 == 8
SizeofChar == 1

WordModulus == 2 ^ WordBits
WordAdd(a, b) == (a + b) % WordModulus
WordSub(a, b) == (a - b + WordModulus) % WordModulus

\* kNumberMaps_ is 3 + STACK_INFO_LAST + 3, where STACK_INFO_LAST counts the
\* stack info types, those of the model here.
kNumberMaps_ == 3 + Cardinality(StackInfoTypes) + 3

\* unsigned int header_size = kNumberMaps_ * sizeof(uint64_t)
header_size == kNumberMaps_ * SizeofUint64

\* offsets[i - 1] of lines 241-245; the model counts maps from 1.
RECURSIVE offsets(_, _)
offsets(map_sizes, i) ==
  IF i = 1 THEN header_size
  ELSE WordAdd(offsets(map_sizes, i - 1), map_sizes[i - 1])

\* size_t expected_size of lines 246-247.
expected_size(map_sizes) ==
  WordAdd(WordAdd(WordAdd(SizeofBool, offsets(map_sizes, kNumberMaps_)),
                  map_sizes[kNumberMaps_]),
          SizeofChar)

\* The negation of the condition of lines 248-250.
SizeLooksGood(expected, memory_buffer_size) ==
  \/ expected = memory_buffer_size
  \/ expected = WordSub(memory_buffer_size, 1)

\* LoadMapFromMemory(memory_buffer, memory_buffer_size): returned is the
\* bool result, the other fields are the members as the call leaves them.
LoadMapFromMemoryResult(buffer, was_corrupt, old_offsets) ==
  IF buffer.null
  THEN [returned |-> FALSE, is_corrupt_ |-> was_corrupt, map_offsets |-> old_offsets]
  ELSE IF ~SizeLooksGood(expected_size(buffer.map_sizes), buffer.size)
       THEN [returned |-> FALSE, is_corrupt_ |-> buffer.is_corrupt,
             map_offsets |-> old_offsets]
       ELSE [returned |-> TRUE, is_corrupt_ |-> buffer.is_corrupt,
             map_offsets |-> [i \in 1..kNumberMaps_ |-> offsets(buffer.map_sizes, i)]]

---------------------------------------------------------------------------
(* StackwalkerAddressList (src/processor/stackwalker_address_list.cc)      *)
(*                                                                         *)
(* frames is the array handed to the constructor, a sequence here, so that *)
(* the C++ frames_[i] is frames[i + 1].  A call returns returned = FALSE   *)
(* for nullptr; index is the index of frames_ it read, -1 when it read     *)
(* none; next_frame_index_ is the member as the call leaves it.            *)

FRAME_TRUST_PREWALKED == "FRAME_TRUST_PREWALKED"
FRAME_TRUST_CONTEXT == "FRAME_TRUST_CONTEXT"

NullFrame(call, next) ==
  [call |-> call, returned |-> FALSE, instruction |-> 0, trust |-> "",
   index |-> -1, next_frame_index_ |-> next]

\* GetContextFrame that leaves next_frame_index_ as it found it.
GetContextFrameKeepsIndex(frames, count, next) ==
  IF count = 0 THEN NullFrame("GetContextFrame", next)
  ELSE [call |-> "GetContextFrame", returned |-> TRUE,
        instruction |-> frames[0 + 1], trust |-> FRAME_TRUST_PREWALKED,
        index |-> 0, next_frame_index_ |-> next]

\* StackwalkerAddressList::GetContextFrame
GetContextFrameResult(frames, count, next) ==
  IF count = 0 THEN NullFrame("GetContextFrame", next)
  ELSE [call |-> "GetContextFrame", returned |-> TRUE,
        instruction |-> frames[0 + 1], trust |-> FRAME_TRUST_PREWALKED,
        index |-> 0, next_frame_index_ |-> 1]

\* GetCallerFrame that advances next_frame_index_ before it tests it.
GetCallerFrameAdvancesFirst(frames, count, next) ==
  IF next >= count THEN NullFrame("GetCallerFrame", next + 1)
  ELSE [call |-> "GetCallerFrame", returned |-> TRUE,
        instruction |-> frames[next + 1], trust |-> FRAME_TRUST_PREWALKED,
        index |-> next, next_frame_index_ |-> next + 1]

\* StackwalkerAddressList::GetCallerFrame
GetCallerFrameResult(frames, count, next) ==
  IF next >= count THEN NullFrame("GetCallerFrame", next)
  ELSE [call |-> "GetCallerFrame", returned |-> TRUE,
        instruction |-> frames[next + 1], trust |-> FRAME_TRUST_PREWALKED,
        index |-> next, next_frame_index_ |-> next + 1]

---------------------------------------------------------------------------
(* MinidumpProcessor::Process, as sections 4.7, 4.9 and 7 of the           *)
(* specification describe it and minidump_processor_unittest.cc drives it. *)
(*                                                                         *)
(* A minidump is what its accessors answer: readable is Minidump::Read(),  *)
(* header, thread_list and system_info tell whether the accessor returns   *)
(* an object, threads are the threads of the thread list, modules and      *)
(* unloaded the two module lists.  A thread is has_context, the            *)
(* instruction pointer ip of its context, and memory: "thread" when        *)
(* GetMemory() returns a region, "list" when only the memory list has one  *)
(* for the stack start, "none" when neither has.                           *)

PROCESS_OK == "PROCESS_OK"
PROCESS_ERROR_MINIDUMP_NOT_FOUND == "PROCESS_ERROR_MINIDUMP_NOT_FOUND"
PROCESS_ERROR_NO_MINIDUMP_HEADER == "PROCESS_ERROR_NO_MINIDUMP_HEADER"
PROCESS_ERROR_NO_THREAD_LIST == "PROCESS_ERROR_NO_THREAD_LIST"
PROCESS_SYMBOL_SUPPLIER_INTERRUPTED == "PROCESS_SYMBOL_SUPPLIER_INTERRUPTED"

\* A code module is a name and the addresses [base, base + size).
NoModule == [name |-> <<"", 0>>, base |-> 0, size |-> 0]
Module(n, base, size) == [name |-> <<"module", n>>, base |-> base, size |-> size]

\* The modules of the test dumps: two loaded modules and, at the top of the
\* address space, a module that has been unloaded.
LoadedModules == {Module(1, 1, 2), Module(2, 3, 1)}
UnloadedModules == {Module(3, MaxAddr, 1)}
ModuleNames == {m.name : m \in LoadedModules \cup UnloadedModules}

\* The return addresses a walker recovers from the stack memory of a thread.
CallerAddresses == <<2, 3>>

NoMinidump ==
  [readable |-> FALSE, header |-> FALSE, thread_list |-> FALSE,
   system_info |-> FALSE, threads |-> <<>>, modules |-> {}, unloaded |-> {}]

NoProcess == [status |-> "none", interrupt |-> FALSE, lookups |-> <<>>, stacks |-> <<>>]
NoTally == [calls |-> 0, oks |-> 0, total |-> 0, lookups |-> [n \in ModuleNames |-> 0]]

\* The events a thread's processing logs are pairs <<accessor, argument>>.
Event(accessor) == <<accessor, 0>>

\* CodeModules::GetModuleForAddress
GetModuleForAddress(modules, address) ==
  LET hit == {m \in modules : m.base <= address /\ address - m.base < m.size}
  IN  IF hit = {} THEN NoModule ELSE CHOOSE m \in hit : TRUE

\* A module lookup that asks the unloaded-module list first.
ResolveModuleUnloadedFirst(d, address) ==
  LET gone == GetModuleForAddress(d.unloaded, address)
  IN  IF gone # NoModule
      THEN [module |-> gone, events |-> << <<"unloaded", address>> >>]
      ELSE [module |-> GetModuleForAddress(d.modules, address),
            events |-> << <<"unloaded", address>>, <<"modules", address>> >>]

\* The module of a frame: the loaded module that covers the instruction,
\* else the one the unloaded-module list returns for it.
ResolveModule(d, address) ==
  LET loaded_module == GetModuleForAddress(d.modules, address)
  IN  IF loaded_module # NoModule
      THEN [module |-> loaded_module, events |-> << <<"modules", address>> >>]
      ELSE [module |-> GetModuleForAddress(d.unloaded, address),
            events |-> << <<"modules", address>>, <<"unloaded", address>> >>]

\* TestSymbolSupplier::GetSymbolFile: INTERRUPT when interrupt_ is set, FOUND
\* for the first module, NOT_FOUND for every other one.
SupplierAnswer(interrupt, name) ==
  IF interrupt THEN "INTERRUPT"
  ELSE IF name = Module(1, 1, 2).name THEN "FOUND"
  ELSE "NOT_FOUND"

\* The symbolizer on one frame.  acc is the walk so far: known the modules
\* already asked for, lookups the supplier's GetCStringSymbolData calls in
\* order with their answers, frames and events those of the thread, interrupted whether the
\* supplier has answered INTERRUPT.  The supplier is asked for a module the
\* first time a frame falls in it.
SymbolizeFrame(acc, d, interrupt, address, trust) ==
  LET res == ResolveModule(d, address)
      name == res.module.name
      ask == name # NoModule.name /\ name \notin acc.known
      answer == SupplierAnswer(interrupt, name)
  IN  [known |-> IF ask THEN acc.known \cup {name} ELSE acc.known,
       lookups |-> IF ask
                   THEN Append(acc.lookups, [module |-> name, answer |-> answer])
                   ELSE acc.lookups,
       interrupted |-> ask /\ answer = "INTERRUPT",
       frames |-> Append(acc.frames,
                         [instruction |-> address, module |-> name, trust |-> trust]),
       events |-> acc.events \o res.events]

\* The walker's loop over the callers: it ends when the supplier interrupts.
RECURSIVE WalkCallers(_, _, _, _)
WalkCallers(acc, d, interrupt, callers) ==
  IF callers = <<>> \/ acc.interrupted THEN acc
  ELSE WalkCallers(SymbolizeFrame(acc, d, interrupt, Head(callers), "FRAME_TRUST_SCAN"),
                   d, interrupt, Tail(callers))

\* Stack memory acquisition that asks the memory list for every thread.
AcquireStackMemoryFromList(thread) ==
  [available |-> thread.memory # "none",
   events |-> <<Event("GetMemory"), Event("GetStartOfStackMemoryRange"),
                Event("GetMemoryRegionForAddress")>>]

\* Stack memory: thread.GetMemory(), else the memory list's region for the
\* thread's stack start.
AcquireStackMemory(thread) ==
  IF thread.memory = "thread"
  THEN [available |-> TRUE, events |-> <<Event("GetMemory")>>]
  ELSE [available |-> thread.memory = "list",
        events |-> <<Event("GetMemory"), Event("GetStartOfStackMemoryRange"),
                     Event("GetMemoryRegionForAddress")>>]

\* A walk that needs stack memory even for the context frame.
WalkNeedsMemory(start, d, interrupt, thread, memory) ==
  IF ~thread.has_context \/ ~memory.available THEN start
  ELSE WalkCallers(SymbolizeFrame(start, d, interrupt, thread.ip, FRAME_TRUST_CONTEXT),
                   d, interrupt, CallerAddresses)

\* The walk of one thread: no frame without a context; else the context
\* frame and, from the stack memory when there is some, its callers.
Walk(start, d, interrupt, thread, memory) ==
  IF ~thread.has_context THEN start
  ELSE LET context_frame ==
             SymbolizeFrame(start, d, interrupt, thread.ip, FRAME_TRUST_CONTEXT)
       IN  IF memory.available
           THEN WalkCallers(context_frame, d, interrupt, CallerAddresses)
           ELSE context_frame

\* The loop over the thread list, from thread i on: each thread's stack
\* memory is acquired, the thread is walked, and its call stack is added to
\* the process state.  The loop ends when the supplier has interrupted.
RECURSIVE ProcessThreads(_, _, _, _)
ProcessThreads(acc, d, interrupt, i) ==
  IF i > Len(d.threads) \/ acc.interrupted THEN acc
  ELSE LET memory == AcquireStackMemory(d.threads[i])
           start == [known |-> acc.known, lookups |-> acc.lookups,
                     interrupted |-> FALSE, frames |-> <<>>,
                     events |-> <<Event("GetContext")>> \o memory.events]
           w == Walk(start, d, interrupt, d.threads[i], memory)
       IN  ProcessThreads(
             [known |-> w.known, lookups |-> w.lookups, interrupted |-> w.interrupted,
              stacks |-> Append(acc.stacks, [frames |-> w.frames, events |-> w.events])],
             d, interrupt, i + 1)

\* Error checks that look at the system info before the thread list.
DumpErrorSystemInfoFirst(d) ==
  IF ~d.readable THEN PROCESS_ERROR_MINIDUMP_NOT_FOUND
  ELSE IF ~d.header THEN PROCESS_ERROR_NO_MINIDUMP_HEADER
  ELSE IF ~d.system_info THEN "PROCESS_ERROR_NO_SYSTEM_INFO"
  ELSE IF ~d.thread_list THEN PROCESS_ERROR_NO_THREAD_LIST
  ELSE PROCESS_OK

\* The checks that end Process before any thread is looked at.
DumpError(d) ==
  IF ~d.readable THEN PROCESS_ERROR_MINIDUMP_NOT_FOUND
  ELSE IF ~d.header THEN PROCESS_ERROR_NO_MINIDUMP_HEADER
  ELSE IF ~d.thread_list THEN PROCESS_ERROR_NO_THREAD_LIST
  ELSE PROCESS_OK

\* A processor that reports PROCESS_OK whatever the supplier answered.
StatusIgnoringSupplier(interrupted) == PROCESS_OK

\* The status of a dump whose threads have been processed.
StatusAfterThreads(interrupted) ==
  IF interrupted THEN PROCESS_SYMBOL_SUPPLIER_INTERRUPTED ELSE PROCESS_OK

\* A symbolizer that remembers its modules from one Process call to the next.
KeepSymbolizer(known) == known

\* The symbolizer forgets its modules when a Process call ends.
ResetSymbolizer(known) == {}

\* processor.Process(dump, &state): the status, the call stacks of
\* state.threads(), the supplier calls made, and the symbolizer's modules
\* after the call.  known are the symbolizer's modules before it.
ProcessResult(d, interrupt, known) ==
  IF DumpError(d) # PROCESS_OK
  THEN [status |-> DumpError(d), interrupt |-> interrupt, lookups |-> <<>>,
        stacks |-> <<>>, known |-> ResetSymbolizer(known)]
  ELSE LET done == ProcessThreads([known |-> known, lookups |-> <<>>,
                                   interrupted |-> FALSE, stacks |-> <<>>],
                                  d, interrupt, 1)
       IN  [status |-> StatusAfterThreads(done.interrupted), interrupt |-> interrupt,
            lookups |-> done.lookups, stacks |-> done.stacks,
            known |-> ResetSymbolizer(done.known)]

---------------------------------------------------------------------------
(* The modules and frames the model starts from.  Every symbol's           *)
(* attributes are derived from its address, so that the symbols of one     *)
(* module differ from each other in every field that a lookup copies.      *)

ModuleBases == {0, 1}
KnownFiles == 0..MaxInlineDepth
UnknownFile == MaxInlineDepth + 1
KnownOrigins == 1..(MaxInlineDepth - 1)

SubsetsUpTo(S, n) == {T \in SUBSET S : Cardinality(T) <= n}

Function(r, lines, inlines) ==
  [base |-> r[1], size |-> r[2], name |-> FuncName(r[1]),
   is_multiple |-> (r[1] % 2 = 0), parameter_size |-> 4 * (r[1] + 1),
   lines |-> lines, inlines |-> inlines]

PublicSymbol(a) ==
  [address |-> a, name |-> PublicName(a), is_multiple |-> (a % 2 = 1),
   parameter_size |-> 4 * (a + 1) + 2]

Line(r, file_id) ==
  [base |-> r[1], size |-> r[2], source_file_id |-> file_id, line |-> 100 + r[1]]

StackWin(type, r) ==
  [base |-> r[1], size |-> r[2], depth |-> 1,
   entry |-> [type_ |-> type, prolog_size |-> r[1], epilog_size |-> r[2],
              parameter_size |-> 4 * (r[1] + 1) + (IF type = STACK_INFO_FPO THEN 1 ELSE 3),
              saved_register_size |-> 4, local_size |-> 8, max_stack_size |-> 12,
              allocates_base_pointer |-> (type = STACK_INFO_FPO),
              program_string |-> IF type = STACK_INFO_FRAME_DATA
                                 THEN "$eip .raSearch ^ =" ELSE ""]]

\* The range maps with at most n disjoint ranges.
RangeSets(n) ==
  {S \in SubsetsUpTo(Ranges, n) :
     \A r \in S : \A q \in S :
       r = q \/ RangeSet(r[1], r[2]) \cap RangeSet(q[1], q[2]) = {}}

FunctionMaps == {{Function(r, {}, {}) : r \in S} : S \in RangeSets(MaxFuncs)}
PublicMaps == {{PublicSymbol(a) : a \in S} : S \in SubsetsUpTo(Addrs, MaxPublics)}

FreshFrame(instruction, module_base) ==
  [instruction |-> instruction, module_base |-> module_base,
   function_name |-> EmptyName, function_base |-> 0,
   source_file_name |-> EmptyName, source_line |-> 0, source_line_base |-> 0,
   is_multiple |-> FALSE, trust |-> "FRAME_TRUST_NONE"]

\* A frame that an earlier lookup, in another module, has filled in.
StaleFrame(instruction, module_base) ==
  [instruction |-> instruction, module_base |-> module_base,
   function_name |-> <<"stale", 0>>, function_base |-> MaxAddr,
   source_file_name |-> <<"stale.cc", 0>>, source_line |-> 7,
   source_line_base |-> MaxAddr, is_multiple |-> TRUE,
   trust |-> "FRAME_TRUST_CONTEXT"]

\* The frames of a module: the instruction lies at or above the module base.
Frames ==
  {FreshFrame(i, b) : <<i, b>> \in {p \in Addrs \X ModuleBases : p[1] >= p[2]}}
  \cup {StaleFrame(i, b) : <<i, b>> \in {p \in Addrs \X ModuleBases : p[1] >= p[2]}}

NoCall == [returned |-> FALSE, result |-> EmptyWindowsFrameInfo]
EmptyStackWin == [t \in StackInfoTypes |-> {}]

ContainIdle == c_query = <<0, 0, 0>> /\ c_answer = "unset"

CfiIdle ==
  /\ cfi_initial_rules_ = {}
  /\ cfi_delta_rules_ = {}
  /\ cfi = [returned |-> FALSE, rules |-> EmptyCFIFrameInfo, applied |-> <<>>]

\* char* memory_buffer = nullptr
NullBuffer ==
  [null |-> TRUE, size |-> 0, is_corrupt |-> FALSE,
   map_sizes |-> [i \in 1..kNumberMaps_ |-> 0]]

LoadIdle ==
  /\ memory_buffer = NullBuffer
  /\ is_corrupt_ = FALSE
  /\ map_offsets = <<>>
  /\ loaded = "unset"

\* StackwalkerAddressList(nullptr, 0, ...)
WalkerIdle ==
  /\ frames_ = <<>>
  /\ frame_count_ = 0
  /\ next_frame_index_ = 0
  /\ walk = <<>>

\* A processor that has processed nothing, and no minidump.
ProcessorIdle ==
  /\ dump = NoMinidump
  /\ supplier_interrupt = FALSE
  /\ known_modules = {}
  /\ last = NoProcess
  /\ prev_status = "none"
  /\ tally = NoTally

\* A barrier nobody has initialised or waits on.
BarrierThreads == 1..MaxBarrierThreads

BarrierIdle ==
  /\ barrier_count = 0
  /\ barrier_mutex = 0
  /\ barrier_cond = {}
  /\ pc = [t \in BarrierThreads |-> "out"]
  /\ barrier = [init |-> 0, entered |-> 0, decrements |-> <<>>, spurious |-> {},
                returns |-> <<>>]

ExtraIdle == CfiIdle /\ LoadIdle /\ WalkerIdle /\ ProcessorIdle /\ BarrierIdle

InitLookup ==
  /\ functions_ \in FunctionMaps
  /\ public_symbols_ \in PublicMaps
  /\ windows_frame_info_ = EmptyStackWin
  /\ files_ = KnownFiles
  /\ inline_origins_ = KnownOrigins
  /\ frame \in Frames
  /\ inlined_frames = <<>>
  /\ entry = [frame |-> frame, inlined_frames |-> inlined_frames]
  /\ used = {}
  /\ wfi = NoCall
  /\ op = "none"
  /\ ContainIdle
  /\ ExtraIdle

\* resolver.LookupAddress(frame, &inlined_frames)
LookupAddress ==
  /\ op = "none"
  /\ LET r == LookupAddressResult(frame, inlined_frames, TRUE)
     IN  /\ frame' = r.frame
         /\ inlined_frames' = r.inlined_frames
         /\ used' = r.used
  /\ op' = "LookupAddress"
  /\ UNCHANGED <<functions_, public_symbols_, windows_frame_info_, files_,
                 inline_origins_, entry, wfi, containVars, extraVars>>

\* resolver.LookupAddress(frame, nullptr)
LookupAddressNoInlines ==
  /\ op = "none"
  /\ LET r == LookupAddressResult(frame, inlined_frames, FALSE)
     IN  /\ frame' = r.frame
         /\ inlined_frames' = r.inlined_frames
         /\ used' = r.used
  /\ op' = "LookupAddressNoInlines"
  /\ UNCHANGED <<functions_, public_symbols_, windows_frame_info_, files_,
                 inline_origins_, entry, wfi, containVars, extraVars>>

NextLookup == LookupAddress \/ LookupAddressNoInlines

SpecLookup == InitLookup /\ [][NextLookup]_vars


---------------------------------------------------------------------------
(* Modules with one function that has inline records: a chain of nested    *)
(* INLINE records, one per depth, the outermost one optionally with a      *)
(* second range.                                                           *)

Within(outer) ==
  {q \in Ranges : q[1] >= outer[1] /\ q[1] + q[2] <= outer[1] + outer[2]}

\* The chains <<r1, ..., rk>>, k <= n, of ranges nested in outer, outermost first.
RECURSIVE NestedChains(_, _)
NestedChains(outer, n) ==
  IF n = 0 THEN {<<>>}
  ELSE {<<>>} \cup UNION {{<<q>> \o c : c \in NestedChains(q, n - 1)} : q \in Within(outer)}

\* What an INLINE record says about its call-site file.
CallSiteKinds == {"known_file", "unknown_file", "no_file_id"}

Inline(depth, ranges, kind) ==
  [origin_id |-> depth, call_site_line |-> 10 + depth,
   has_call_site_file_id |-> (kind # "no_file_id"),
   call_site_file_id |-> IF kind = "unknown_file" THEN UnknownFile ELSE depth,
   inline_ranges |-> ranges]

\* The ranges of the record at each depth: extra, when given, is a second
\* range of the outermost record, listed first.
InlineRanges(chain, extra, depth) ==
  IF depth = 1 /\ extra # <<>> THEN <<extra, chain[1]>> ELSE <<chain[depth]>>

\* The contained range map of the chain: one node per range of each record.
InlineMap(chain, extra, kinds) ==
  UNION {{[base |-> InlineRanges(chain, extra, d)[i][1],
           size |-> InlineRanges(chain, extra, d)[i][2],
           depth |-> d,
           entry |-> Inline(d, InlineRanges(chain, extra, d), kinds[d])]
            : i \in 1..Len(InlineRanges(chain, extra, d))}
         : d \in 1..Len(chain)}

\* At most one record of a chain departs from a known call-site file.
KindsOf(chain) ==
  {[d \in 1..Len(chain) |-> "known_file"]}
  \cup {[d \in 1..Len(chain) |-> IF d = j THEN k ELSE "known_file"]
          : <<j, k>> \in (1..Len(chain)) \X (CallSiteKinds \ {"known_file"})}

ExtraRanges(func_range, chain) ==
  {<<>>} \cup (IF chain = <<>> THEN {}
               ELSE {q \in Within(func_range) :
                       q[2] = 1 /\ RangeSet(q[1], q[2]) \cap RangeSet(chain[1][1], chain[1][2]) = {}})

InlinedFunctionRange == <<2, MaxAddr - 1>>

InlineFunctionMaps ==
  UNION {UNION {{ {Function(InlinedFunctionRange, lines, InlineMap(chain, extra, kinds))}
                   : kinds \in KindsOf(chain)}
                : extra \in ExtraRanges(InlinedFunctionRange, chain)}
         : <<chain, lines>> \in NestedChains(InlinedFunctionRange, MaxInlineDepth)
                                \X {{}, {Line(InlinedFunctionRange, 0)}}}

HasLines(map) == \E func \in map : func.lines # {}

\* An inline frame that an earlier lookup left in the deque.
StaleInlineFrame ==
  [StaleFrame(0, 0) EXCEPT !.function_name = <<"stale inline", 0>>,
                           !.source_line = 8, !.trust = "FRAME_TRUST_INLINE"]

\* A fresh frame meets a function with line records and an empty deque; a
\* frame filled in earlier meets a function without line records, and the
\* deque may then hold a frame of an earlier lookup.
InitInline ==
  /\ functions_ \in InlineFunctionMaps
  /\ public_symbols_ = {}
  /\ windows_frame_info_ = EmptyStackWin
  /\ files_ = KnownFiles
  /\ inline_origins_ = KnownOrigins
  /\ frame \in {f \in Frames : (f.function_name = EmptyName) = HasLines(functions_)}
  /\ inlined_frames \in {<<>>} \cup (IF HasLines(functions_) THEN {}
                                     ELSE {<<StaleInlineFrame>>})
  /\ entry = [frame |-> frame, inlined_frames |-> inlined_frames]
  /\ used = {}
  /\ wfi = NoCall
  /\ op = "none"
  /\ ContainIdle
  /\ ExtraIdle

SpecInline == InitInline /\ [][NextLookup]_vars


---------------------------------------------------------------------------
(* The range test on its own, for every address, base and size. *)

ResolverIdle ==
  /\ functions_ = {}
  /\ public_symbols_ = {}
  /\ windows_frame_info_ = EmptyStackWin
  /\ files_ = KnownFiles
  /\ inline_origins_ = KnownOrigins
  /\ frame = FreshFrame(0, 0)
  /\ inlined_frames = <<>>
  /\ entry = [frame |-> frame, inlined_frames |-> inlined_frames]
  /\ used = {}
  /\ wfi = NoCall
  /\ op = "none"

InitContain ==
  /\ ResolverIdle
  /\ ExtraIdle
  /\ c_query \in Addrs \X Addrs \X Addrs
  /\ c_answer = "unset"

\* The condition of lines 90-92 and 309-311 once RetrieveNearestRange has
\* written function_base and function_size.
RangeTest ==
  /\ c_answer = "unset"
  /\ c_answer' = IF Covers(c_query[1], c_query[2], c_query[3])
                 THEN "inside" ELSE "outside"
  /\ UNCHANGED <<c_query, resolverVars, extraVars>>

NextContain == RangeTest

SpecContain == InitContain /\ [][NextContain]_vars

---------------------------------------------------------------------------
(* Properties of LookupAddress. *)

LookupDone == op \in {"LookupAddress", "LookupAddressNoInlines"}

\* addr = frame.instruction - frame.module.base of the last call.
Addr == entry.frame.instruction - entry.frame.module_base
ModuleBase == entry.frame.module_base

\* The functions whose range holds Addr, in unbounded arithmetic.
ContainingFunctions ==
  {func \in functions_ : func.base <= Addr /\ Addr < func.base + func.size}
\* The function with the greatest base <= Addr, if any.
NearestFunctions ==
  {func \in functions_ :
     /\ func.base <= Addr
     /\ \A g \in functions_ : g.base <= Addr => g.base <= func.base}
\* The public symbol with the greatest address <= Addr, if any.
NearestPublics ==
  {p \in public_symbols_ :
     /\ p.address <= Addr
     /\ \A q \in public_symbols_ : q.address <= Addr => q.address <= p.address}
\* The nearest public symbol, when it lies above the base of every function
\* that starts at or below Addr.
AcceptablePublics ==
  {p \in NearestPublics : \A func \in NearestFunctions : p.address > func.base}

\* C1: when the function found by RetrieveNearestRange contains addr, the
\* frame gets that function's name, function_base = module base + function
\* base and the function's is_multiple flag, and public_symbols_ is not queried.
C1_FunctionFillsFrame ==
  LookupDone =>
    \A func \in NearestFunctions :
      (func.base <= Addr /\ Addr < func.base + func.size) =>
        /\ frame.function_name = func.name
        /\ frame.function_base = ModuleBase + func.base
        /\ frame.is_multiple = func.is_multiple
        /\ "public_symbols_" \notin used

C1_Witness ==
  /\ op = "LookupAddress"
  /\ ModuleBase > 0
  /\ entry.frame.function_name # EmptyName
  /\ \E func \in ContainingFunctions : \E p \in NearestPublics :
       /\ p.address > func.base
       /\ frame.function_name = func.name
       /\ frame.is_multiple # entry.frame.is_multiple

\* C2: when no function contains addr, the frame is named after the public
\* symbol P with the greatest address <= addr exactly when no function starts
\* at or below addr or P.address > the base of the nearest such function; it
\* is named after no other public symbol; and when P is accepted the frame has
\* function_base = module base + P.address and is_multiple = P.is_multiple.
C2_PublicFallback ==
  (LookupDone /\ ContainingFunctions = {}) =>
    /\ {p \in public_symbols_ : frame.function_name = p.name} = AcceptablePublics
    /\ \A p \in AcceptablePublics :
         /\ frame.function_base = ModuleBase + p.address
         /\ frame.is_multiple = p.is_multiple

C2_Witness ==
  /\ op = "LookupAddress"
  /\ ContainingFunctions = {}
  /\ NearestFunctions # {}
  /\ ModuleBase > 0
  /\ \E p \in AcceptablePublics :
       /\ frame.function_name = p.name
       /\ \E q \in public_symbols_ : q.address < p.address

\* C3: when neither a containing function nor an acceptable public symbol
\* exists, function_name, function_base, is_multiple, source_file_name,
\* source_line and source_line_base are as they were on entry and the deque
\* of inline frames is as it was.
C3_NoMatchLeavesFrame ==
  (LookupDone /\ ContainingFunctions = {} /\ AcceptablePublics = {}) =>
    /\ frame.function_name = entry.frame.function_name
    /\ frame.function_base = entry.frame.function_base
    /\ frame.is_multiple = entry.frame.is_multiple
    /\ frame.source_file_name = entry.frame.source_file_name
    /\ frame.source_line = entry.frame.source_line
    /\ frame.source_line_base = entry.frame.source_line_base
    /\ inlined_frames = entry.inlined_frames

C3_Witness ==
  /\ op = "LookupAddress"
  /\ ContainingFunctions = {}
  /\ AcceptablePublics = {}
  /\ NearestPublics # {}
  /\ NearestFunctions # {}
  /\ frame.function_name = <<"stale", 0>>
  /\ frame.source_line = 7

\* C4: for every address, base and size of the address width, base + size
\* beyond the largest address included, the range test answers "inside"
\* exactly when base <= address < base + size in unbounded arithmetic.
C4_RangeTestIsExact ==
  c_answer # "unset" =>
    (c_answer = "inside"
       <=> (c_query[2] <= c_query[1] /\ c_query[1] < c_query[2] + c_query[3]))

C4_Witness ==
  /\ c_answer = "inside"
  /\ c_query[2] + c_query[3] > MaxAddr


---------------------------------------------------------------------------
(* Properties of ConstructInlineFrames. *)

InlinesBuilt == op = "LookupAddress" /\ entry.inlined_frames = <<>>

\* The nodes of the containing function's inline map whose range holds Addr.
HitNodes ==
  UNION {{n \in func.inlines : n.base <= Addr /\ Addr < n.base + n.size}
         : func \in ContainingFunctions}
\* The inline record expected at position i: i - 1 records lie deeper.
RecordAt(i) ==
  (CHOOSE n \in HitNodes : Cardinality({m \in HitNodes : m.depth > n.depth}) = i - 1).entry
InlineName(in) ==
  IF in.origin_id \in inline_origins_ THEN OriginName(in.origin_id) ELSE OmittedName

\* The line records that cover Addr, and the (file, line) of the enclosing
\* frame before the inline frames are built.
LeafLines ==
  UNION {{l \in func.lines : l.base <= Addr /\ Addr < l.base + l.size}
         : func \in ContainingFunctions}
LeafFile ==
  IF \E l \in LeafLines : l.source_file_id \in files_
  THEN FileName((CHOOSE l \in LeafLines : TRUE).source_file_id)
  ELSE entry.frame.source_file_name
LeafLine ==
  IF LeafLines # {} THEN (CHOOSE l \in LeafLines : TRUE).line
  ELSE entry.frame.source_line

\* C5: called with an empty deque, LookupAddress leaves one frame per inline
\* record whose range contains addr, each with trust = inline, the deepest
\* record's frame at the front and the outermost record's frame at the back.
C5_InlineFramesInnermostFirst ==
  InlinesBuilt =>
    /\ Len(inlined_frames) = Cardinality({n.entry : n \in HitNodes})
    /\ \A i \in 1..Len(inlined_frames) :
         /\ inlined_frames[i].trust = "FRAME_TRUST_INLINE"
         /\ inlined_frames[i].function_name = InlineName(RecordAt(i))

C5_Witness ==
  /\ InlinesBuilt
  /\ Len(inlined_frames) >= 3
  /\ Cardinality(HitNodes) < Cardinality(UNION {func.inlines : func \in functions_})
  /\ inlined_frames[1].function_name = OmittedName

\* C6 as stated: the enclosing frame ends with the (file, line) of the call
\* site recorded in the outermost inline record (the file of the record's
\* call_site_file_id, where the record has one), the innermost inline frame
\* with the leaf (file, line).
C6_CallSiteOfOutermost ==
  (InlinesBuilt /\ HitNodes # {}) =>
    LET outermost == RecordAt(Cardinality(HitNodes))
    IN  /\ outermost.has_call_site_file_id =>
             frame.source_file_name = FileName(outermost.call_site_file_id)
        /\ frame.source_line = outermost.call_site_line
        /\ inlined_frames[1].source_file_name = LeafFile
        /\ inlined_frames[1].source_line = LeafLine

\* The file a frame built for record in carries before the shift.
CallSiteFile(in) ==
  IF in.has_call_site_file_id /\ in.call_site_file_id \in files_
  THEN FileName(in.call_site_file_id) ELSE LeafFile

\* C6 amended: the enclosing frame ends with the call-site line of the
\* outermost inline record and with that record's call-site file when the
\* record has a call-site file id that files_ knows, otherwise with the leaf
\* file name; the innermost inline frame ends with the leaf (file, line).
C6_ShiftEndpoints ==
  (InlinesBuilt /\ HitNodes # {}) =>
    LET outermost == RecordAt(Cardinality(HitNodes))
    IN  /\ frame.source_file_name = CallSiteFile(outermost)
        /\ frame.source_line = outermost.call_site_line
        /\ inlined_frames[1].source_file_name = LeafFile
        /\ inlined_frames[1].source_line = LeafLine

C6_Witness ==
  /\ InlinesBuilt
  /\ Len(inlined_frames) >= 3
  /\ ~RecordAt(Len(inlined_frames)).has_call_site_file_id
  /\ LeafLines # {}
  /\ frame.source_file_name = LeafFile
  /\ frame.source_line = RecordAt(Len(inlined_frames)).call_site_line

\* C7: every inline frame has function_base = module base + a, where (a, s)
\* is the range of its inline record that contains addr in unbounded
\* arithmetic, also when a + s wraps.
C7_InlineFunctionBase ==
  InlinesBuilt =>
    \A i \in 1..Len(inlined_frames) :
      \E j \in 1..Len(RecordAt(i).inline_ranges) :
        LET range == RecordAt(i).inline_ranges[j]
        IN  /\ range[1] <= Addr /\ Addr - range[1] < range[2]
            /\ inlined_frames[i].function_base = AddrAdd(ModuleBase, range[1])


---------------------------------------------------------------------------
(* FindWindowsFrameInfo: modules with STACK WIN records of both types, and *)
(* the modules of InitLookup, which have none.                             *)

StackWinMaps ==
  {[t \in StackInfoTypes |-> {StackWin(t, r) : r \in S[t]}]
     : S \in [StackInfoTypes -> RangeSets(MaxStackWin)]}

InitStackWin ==
  /\ functions_ \in {{}, {Function(<<0, MaxAddr>>, {}, {})}}
  /\ public_symbols_ \in {{}, {PublicSymbol(0)}}
  /\ windows_frame_info_ \in StackWinMaps
  /\ files_ = KnownFiles
  /\ inline_origins_ = KnownOrigins
  /\ frame \in {f \in Frames : f.function_name = EmptyName}
  /\ inlined_frames = <<>>
  /\ entry = [frame |-> frame, inlined_frames |-> inlined_frames]
  /\ used = {}
  /\ wfi = NoCall
  /\ op = "none"
  /\ ContainIdle
  /\ ExtraIdle

InitWindowsFrameInfo == InitStackWin \/ InitLookup

\* resolver.FindWindowsFrameInfo(frame)
FindWindowsFrameInfo ==
  /\ op = "none"
  /\ LET r == FindWindowsFrameInfoResult(frame)
     IN  /\ wfi' = [returned |-> r.returned, result |-> r.result]
         /\ used' = r.used
  /\ op' = "FindWindowsFrameInfo"
  /\ UNCHANGED <<functions_, public_symbols_, windows_frame_info_, files_,
                 inline_origins_, frame, inlined_frames, entry, containVars, extraVars>>

NextWindowsFrameInfo == FindWindowsFrameInfo

SpecWindowsFrameInfo == InitWindowsFrameInfo /\ [][NextWindowsFrameInfo]_vars

\* The STACK WIN records of one type whose range holds Addr.
StackWinAt(type) ==
  {n \in windows_frame_info_[type] : n.base <= Addr /\ Addr < n.base + n.size}

\* The returned record has every field of the stored record.
FullRecord(result, raw) ==
  /\ result.type_ = raw.type_
  /\ result.valid = VALID_ALL
  /\ result.prolog_size = raw.prolog_size
  /\ result.epilog_size = raw.epilog_size
  /\ result.parameter_size = raw.parameter_size
  /\ result.saved_register_size = raw.saved_register_size
  /\ result.local_size = raw.local_size
  /\ result.max_stack_size = raw.max_stack_size
  /\ result.allocates_base_pointer = raw.allocates_base_pointer
  /\ result.program_string = raw.program_string

WfiDone == op = "FindWindowsFrameInfo"

\* C8: a FRAME_DATA record that covers addr is the one returned, an FPO
\* record covers it or not; an FPO record is returned only when no FRAME_DATA
\* record covers addr; the result is the full stored record, and functions_
\* and public_symbols_ are not queried.
C8_FrameDataBeforeFpo ==
  WfiDone =>
    /\ StackWinAt(STACK_INFO_FRAME_DATA) # {} =>
         /\ wfi.returned
         /\ \E n \in StackWinAt(STACK_INFO_FRAME_DATA) : FullRecord(wfi.result, n.entry)
    /\ (StackWinAt(STACK_INFO_FRAME_DATA) = {} /\ StackWinAt(STACK_INFO_FPO) # {}) =>
         /\ wfi.returned
         /\ \E n \in StackWinAt(STACK_INFO_FPO) : FullRecord(wfi.result, n.entry)
    /\ (StackWinAt(STACK_INFO_FRAME_DATA) \cup StackWinAt(STACK_INFO_FPO) # {}) =>
         used \cap {"functions_", "public_symbols_"} = {}

C8_Witness ==
  /\ WfiDone
  /\ StackWinAt(STACK_INFO_FRAME_DATA) # {}
  /\ StackWinAt(STACK_INFO_FPO) # {}
  /\ ContainingFunctions # {}
  /\ NearestPublics # {}
  /\ wfi.returned
  /\ wfi.result.type_ = STACK_INFO_FRAME_DATA

\* C9: with no STACK WIN record of either type covering addr and a function
\* containing addr, the call returns a result with the function's
\* parameter_size and a valid mask of exactly VALID_PARAMETER_SIZE.
C9_FunctionParameterSize ==
  (/\ WfiDone
   /\ StackWinAt(STACK_INFO_FRAME_DATA) \cup StackWinAt(STACK_INFO_FPO) = {}
   /\ ContainingFunctions # {}) =>
    /\ wfi.returned
    /\ \A func \in ContainingFunctions :
         wfi.result.parameter_size = func.parameter_size
    /\ wfi.result.valid = VALID_PARAMETER_SIZE

C9_Witness ==
  /\ WfiDone
  /\ \E t \in StackInfoTypes : windows_frame_info_[t] # {}
  /\ StackWinAt(STACK_INFO_FRAME_DATA) \cup StackWinAt(STACK_INFO_FPO) = {}
  /\ ContainingFunctions # {}
  /\ NearestPublics # {}
  /\ wfi.returned
  /\ wfi.result.parameter_size > 0

\* C10: with no STACK WIN record covering addr, no function containing addr
\* and a public symbol as the tightest match, the call returns a result that
\* carries the public symbol's parameter_size.
C10_PublicParameterSize ==
  (/\ WfiDone
   /\ StackWinAt(STACK_INFO_FRAME_DATA) \cup StackWinAt(STACK_INFO_FPO) = {}
   /\ ContainingFunctions = {}
   /\ AcceptablePublics # {}) =>
    /\ wfi.returned
    /\ \A p \in AcceptablePublics : wfi.result.parameter_size = p.parameter_size

---------------------------------------------------------------------------
(* FindCFIFrameInfo: modules with STACK CFI INIT and STACK CFI records.    *)

\* Registers are pairs: <<".cfa", 0>>, <<".ra", 0>> and <<"$r", n>>.
\* The rule set of a STACK CFI INIT record at base.  A malformed one breaks
\* off after its .cfa rule.
InitialRuleSet(base, well_formed) ==
  [ok |-> well_formed,
   rules |-> IF well_formed
             THEN (<<".cfa", 0>> :> <<"initial", base>>)
                  @@ (<<".ra", 0>> :> <<"initial", base>>)
             ELSE (<<".cfa", 0>> :> <<"initial", base>>)]

\* The rule set of a STACK CFI record at key.  A malformed one breaks off
\* after its .ra rule.
DeltaRuleSet(key, well_formed) ==
  [ok |-> well_formed,
   rules |-> IF well_formed
             THEN (<<".ra", 0>> :> <<"delta", key>>)
                  @@ (<<"$r", key>> :> <<"delta", key>>)
             ELSE (<<".ra", 0>> :> <<"delta", key>>)]

\* The maps with at most one malformed rule set.
CfiInitialMaps ==
  {{[base |-> r[1], size |-> r[2], rules |-> InitialRuleSet(r[1], r \notin bad)]
      : r \in S}
     : <<S, bad>> \in {p \in RangeSets(MaxCfiRanges) \X SubsetsUpTo(Ranges, 1)
                         : p[2] \subseteq p[1]}}

CfiDeltaMaps ==
  {{[key |-> k, rules |-> DeltaRuleSet(k, k \notin bad)] : k \in S}
     : <<S, bad>> \in {p \in SubsetsUpTo(Addrs, MaxDeltas) \X SubsetsUpTo(Addrs, 1)
                         : p[2] \subseteq p[1]}}

InitCFI ==
  /\ functions_ = {}
  /\ public_symbols_ = {}
  /\ windows_frame_info_ = EmptyStackWin
  /\ files_ = KnownFiles
  /\ inline_origins_ = KnownOrigins
  /\ frame \in {f \in Frames : f.function_name = EmptyName}
  /\ inlined_frames = <<>>
  /\ entry = [frame |-> frame, inlined_frames |-> inlined_frames]
  /\ used = {}
  /\ wfi = NoCall
  /\ op = "none"
  /\ ContainIdle
  /\ cfi_initial_rules_ \in CfiInitialMaps
  /\ cfi_delta_rules_ \in CfiDeltaMaps
  /\ cfi = [returned |-> FALSE, rules |-> EmptyCFIFrameInfo, applied |-> <<>>]
  /\ LoadIdle /\ WalkerIdle /\ ProcessorIdle /\ BarrierIdle

\* resolver.FindCFIFrameInfo(frame)
FindCFIFrameInfo ==
  /\ op = "none"
  /\ LET r == FindCFIFrameInfoResult(frame)
     IN  /\ cfi' = [returned |-> r.returned, rules |-> r.rules,
                    applied |-> r.applied]
         /\ used' = r.used
  /\ op' = "FindCFIFrameInfo"
  /\ UNCHANGED <<functions_, public_symbols_, windows_frame_info_, files_,
                 inline_origins_, frame, inlined_frames, entry, wfi,
                 cfi_initial_rules_, cfi_delta_rules_, containVars,
                 loadVars, walkerVars, processorVars, barrierVars>>

NextCFI == FindCFIFrameInfo

SpecCFI == InitCFI /\ [][NextCFI]_vars

CfiDone == op = "FindCFIFrameInfo"

\* The initial rule entries whose range holds Addr, in unbounded arithmetic.
CoveringInitial ==
  {e \in cfi_initial_rules_ : e.base <= Addr /\ Addr < e.base + e.size}

\* The delta rules with ibase <= key <= addr.
DeltaWindow(e) ==
  {d \in cfi_delta_rules_ : e.base <= d.key /\ d.key <= Addr}

\* C11: when an initial rule range holds addr and its rule set parses, the
\* call returns a rule set; the delta rules handed to the parser are exactly
\* those with ibase <= key <= addr, each once, in strictly increasing key
\* order; and every register of the result carries the rule of the last
\* such delta that names it, or else the initial rule.
C11_DeltasFromBaseThroughAddress ==
  CfiDone =>
    \A e \in CoveringInitial : e.rules.ok =>
      LET window == DeltaWindow(e)
          rulesOf(d) == d.rules.rules
      IN  /\ cfi.returned
          /\ {cfi.applied[i] : i \in DOMAIN cfi.applied} = {d.key : d \in window}
          /\ Len(cfi.applied) = Cardinality(window)
          /\ \A i \in DOMAIN cfi.applied : \A j \in DOMAIN cfi.applied :
               i < j => cfi.applied[i] < cfi.applied[j]
          /\ DOMAIN cfi.rules =
               (DOMAIN e.rules.rules) \cup UNION {DOMAIN rulesOf(d) : d \in window}
          /\ \A r \in DOMAIN cfi.rules :
               LET setters == {d \in window : r \in DOMAIN rulesOf(d)}
               IN  cfi.rules[r] =
                     IF setters = {} THEN e.rules.rules[r]
                     ELSE rulesOf(CHOOSE d \in setters :
                                    \A x \in setters : x.key <= d.key)[r]

\* Two delta rules were applied, one delta rule lies beyond addr inside the
\* initial range, and so was not.
C11_Witness ==
  /\ CfiDone
  /\ cfi.returned
  /\ Len(cfi.applied) = 2
  /\ \E e \in CoveringInitial :
       \E d \in cfi_delta_rules_ : Addr < d.key /\ d.key < e.base + e.size

\* C12: the call returns null when no initial rule range holds addr, and
\* when the rule set of the range that holds it fails to parse; in both
\* cases no delta rule is handed to the parser.
C12_NoInitialRulesNoResult ==
  (CfiDone /\ (CoveringInitial = {} \/ \E e \in CoveringInitial : ~e.rules.ok)) =>
    /\ ~cfi.returned
    /\ cfi.applied = <<>>
    /\ cfi.rules = EmptyCFIFrameInfo

\* The initial rule set that covers addr is malformed and a delta rule lies
\* between its base and addr.
C12_Witness ==
  /\ CfiDone
  /\ ~cfi.returned
  /\ \E e \in CoveringInitial : ~e.rules.ok /\ DeltaWindow(e) # {}

\* No initial rule range holds addr although delta rules lie at or below it.
C12_WitnessNoRange ==
  /\ CfiDone
  /\ ~cfi.returned
  /\ CoveringInitial = {}
  /\ \E d \in cfi_delta_rules_ : d.key <= Addr

---------------------------------------------------------------------------
(* LoadMapFromMemory: serialized images and buffer sizes.                  *)

\* The sizes a header declares: empty maps, one-byte maps, and the greatest
\* value a uint64_t holds.
SizeValues == {0, 1, WordModulus - 1}

\* Buffer sizes: the empty buffer, and the sizes around that of an image
\* whose maps are all empty.
BufferSizes ==
  {0} \cup {n \in 0..(WordModulus - 1) :
              /\ n + BufferSlack >= SizeofBool + header_size
              /\ n <= SizeofBool + header_size + BufferSlack}

\* map_sizes are the words the code reads at mem_buffer + 1, whether or not
\* the buffer is that long.
InitLoad ==
  /\ ResolverIdle
  /\ ContainIdle
  /\ CfiIdle /\ WalkerIdle /\ ProcessorIdle /\ BarrierIdle
  /\ \/ memory_buffer = NullBuffer
     \/ \E n \in BufferSizes : \E flag \in BOOLEAN :
          \E sizes \in [1..kNumberMaps_ -> SizeValues] :
            memory_buffer = [null |-> FALSE, size |-> n, is_corrupt |-> flag,
                             map_sizes |-> sizes]
  /\ is_corrupt_ = FALSE
  /\ map_offsets = <<>>
  /\ loaded = "unset"

\* module.LoadMapFromMemory(memory_buffer, memory_buffer_size)
LoadMapFromMemory ==
  /\ loaded = "unset"
  /\ LET r == LoadMapFromMemoryResult(memory_buffer, is_corrupt_, map_offsets)
     IN  /\ loaded' = IF r.returned THEN "true" ELSE "false"
         /\ is_corrupt_' = r.is_corrupt_
         /\ map_offsets' = r.map_offsets
  /\ UNCHANGED <<memory_buffer, resolverVars, containVars, cfiVars,
                 walkerVars, processorVars, barrierVars>>

\* The reads of lines 231 and 233-245 reach past a buffer shorter than the
\* flag and the header; the call may end there.
LoadMapFromMemoryFault ==
  /\ loaded = "unset"
  /\ ~memory_buffer.null
  /\ memory_buffer.size < SizeofBool + header_size
  /\ loaded' = "fault"
  /\ UNCHANGED <<memory_buffer, is_corrupt_, map_offsets, resolverVars,
                 containVars, cfiVars, walkerVars, processorVars, barrierVars>>

NextLoad == LoadMapFromMemory \/ LoadMapFromMemoryFault

SpecLoad == InitLoad /\ [][NextLoad]_vars

LoadDone == loaded # "unset"

RECURSIVE SumTo(_, _)
SumTo(map_sizes, i) == IF i = 0 THEN 0 ELSE SumTo(map_sizes, i - 1) + map_sizes[i]

\* 1 + header + the sum of the declared sizes, in unbounded arithmetic.
DeclaredTotal(buffer) ==
  SizeofBool + header_size + SumTo(buffer.map_sizes, kNumberMaps_)

\* C13: on a non-null buffer the load returns true exactly when the buffer
\* length is 1 + header + the sum of the declared map sizes, or that plus
\* one; for every other length it returns false.
C13_LoadSizeCheck ==
  (LoadDone /\ ~memory_buffer.null) =>
    IF memory_buffer.size \in {DeclaredTotal(memory_buffer),
                               DeclaredTotal(memory_buffer) + 1}
    THEN loaded = "true"
    ELSE loaded = "false"

---------------------------------------------------------------------------
(* The address-list walker: any list of up to MaxFrames addresses, and any *)
(* sequence of up to MaxWalkCalls calls.                                   *)

RECURSIVE SeqsUpTo(_, _)
SeqsUpTo(S, n) ==
  IF n = 0 THEN {<<>>}
  ELSE LET shorter == SeqsUpTo(S, n - 1)
       IN  shorter \cup {Append(q, x) : q \in {t \in shorter : Len(t) = n - 1}, x \in S}

InitWalker ==
  /\ ResolverIdle
  /\ ContainIdle
  /\ CfiIdle /\ LoadIdle /\ ProcessorIdle /\ BarrierIdle
  /\ frames_ \in SeqsUpTo(Addrs, MaxFrames)
  /\ frame_count_ = Len(frames_)
  /\ next_frame_index_ = 0
  /\ walk = <<>>

\* walker.GetContextFrame()
GetContextFrame ==
  /\ Len(walk) < MaxWalkCalls
  /\ LET r == GetContextFrameResult(frames_, frame_count_, next_frame_index_)
     IN  /\ next_frame_index_' = r.next_frame_index_
         /\ walk' = Append(walk, r)
  /\ UNCHANGED <<frames_, frame_count_, resolverVars, containVars, cfiVars,
                 loadVars, processorVars, barrierVars>>

\* walker.GetCallerFrame(stack, stack_scan_allowed)
GetCallerFrame ==
  /\ Len(walk) < MaxWalkCalls
  /\ LET r == GetCallerFrameResult(frames_, frame_count_, next_frame_index_)
     IN  /\ next_frame_index_' = r.next_frame_index_
         /\ walk' = Append(walk, r)
  /\ UNCHANGED <<frames_, frame_count_, resolverVars, containVars, cfiVars,
                 loadVars, processorVars, barrierVars>>

NextWalker == GetContextFrame \/ GetCallerFrame

SpecWalker == InitWalker /\ [][NextWalker]_vars

\* GetContextFrame was called once, first, and GetCallerFrame after it, with
\* no call made after one that returned null.
ContextThenCallers ==
  /\ walk # <<>>
  /\ walk[1].call = "GetContextFrame"
  /\ \A i \in 2..Len(walk) : walk[i].call = "GetCallerFrame"
  /\ \A i \in 1..(Len(walk) - 1) : walk[i].returned

\* C14: in such a walk over n addresses the k-th call returns a frame when
\* k <= n, with the k-th address as its instruction and trust prewalked, and
\* returns null when k = n + 1; so the walk yields exactly n frames, in the
\* order supplied, and none when n = 0.
C14_AddressListWalk ==
  ContextThenCallers =>
    \A k \in 1..Len(walk) :
      IF k <= Len(frames_)
      THEN /\ walk[k].returned
           /\ walk[k].instruction = frames_[k]
           /\ walk[k].trust = FRAME_TRUST_PREWALKED
      ELSE ~walk[k].returned

\* A complete walk over a list that holds a zero and a repeated address.
C14_Witness ==
  /\ ContextThenCallers
  /\ Len(frames_) >= 2
  /\ Len(walk) = Len(frames_) + 1
  /\ ~walk[Len(walk)].returned
  /\ \E i \in 1..Len(frames_) : frames_[i] = 0
  /\ \E i \in 1..Len(frames_) : \E j \in 1..Len(frames_) :
       i # j /\ frames_[i] = frames_[j]

\* The walk over the empty list: GetContextFrame returns null.
C14_WitnessEmpty ==
  /\ ContextThenCallers
  /\ frames_ = <<>>
  /\ ~walk[1].returned

---------------------------------------------------------------------------
(* Process: the minidumps of the tests, and sequences of Process calls on  *)
(* one processor with one supplier.                                        *)

\* Threads without a context, and threads whose context's instruction
\* pointer lies inside the first loaded module or inside the unloaded one.
ThreadKinds ==
  {[has_context |-> c, ip |-> a, memory |-> m]
     : <<c, a>> \in {<<FALSE, 0>>, <<TRUE, 1>>, <<TRUE, MaxAddr>>},
       m \in {"thread", "list", "none"}}

Minidump(readable, header, thread_list, system_info, threads, modules) ==
  [readable |-> readable, header |-> header, thread_list |-> thread_list,
   system_info |-> system_info, threads |-> threads, modules |-> modules,
   unloaded |-> UnloadedModules]

\* Dumps that Process gives up on (the unreadable one, those without a
\* header, those without a thread list), and dumps with up to MaxThreads
\* threads, with and without loaded modules; a dump without system info has
\* no thread.
Minidumps ==
  {Minidump(FALSE, FALSE, FALSE, FALSE, <<>>, LoadedModules)}
  \cup {Minidump(TRUE, FALSE, t, s, <<>>, LoadedModules) : t \in BOOLEAN, s \in BOOLEAN}
  \cup {Minidump(TRUE, TRUE, FALSE, s, <<>>, LoadedModules) : s \in BOOLEAN}
  \cup {Minidump(TRUE, TRUE, TRUE, TRUE, threads, modules)
           : threads \in SeqsUpTo(ThreadKinds, MaxThreads),
             modules \in {LoadedModules, {}}}
  \cup {Minidump(TRUE, TRUE, TRUE, FALSE, <<>>, LoadedModules)}

InitProcessor ==
  /\ ResolverIdle
  /\ ContainIdle
  /\ CfiIdle /\ LoadIdle /\ WalkerIdle /\ BarrierIdle
  /\ dump \in Minidumps
  /\ supplier_interrupt = FALSE
  /\ known_modules = {}
  /\ last = NoProcess
  /\ prev_status = "none"
  /\ tally = NoTally

\* How often name was requested in lookups.
Requests(lookups, name) ==
  Cardinality({i \in DOMAIN lookups : lookups[i].module = name})

\* processor.Process(&dump, &state), or Process(minidump_file, &state)
Process ==
  /\ tally.total < MaxProcessCalls
  /\ LET r == ProcessResult(dump, supplier_interrupt, known_modules)
     IN  /\ last' = [status |-> r.status, interrupt |-> r.interrupt,
                     lookups |-> r.lookups, stacks |-> r.stacks]
         /\ known_modules' = r.known
         /\ tally' = [calls |-> tally.calls + 1,
                      oks |-> tally.oks + (IF r.status = PROCESS_OK THEN 1 ELSE 0),
                      total |-> tally.total + 1,
                      lookups |-> [n \in ModuleNames |->
                                     tally.lookups[n] + Requests(r.lookups, n)]]
  /\ prev_status' = IF last = NoProcess THEN prev_status ELSE last.status
  /\ UNCHANGED <<dump, supplier_interrupt, resolverVars, containVars, cfiVars,
                 loadVars, walkerVars, barrierVars>>

\* supplier.set_interrupt(interrupt)
set_interrupt ==
  /\ tally.total < MaxProcessCalls
  /\ supplier_interrupt' = ~supplier_interrupt
  /\ UNCHANGED <<dump, known_modules, last, prev_status, tally, resolverVars,
                 containVars, cfiVars, loadVars, walkerVars, barrierVars>>

\* The test hands the processor another dump, or changes what the mock
\* dump's accessors answer.
NextMinidump ==
  /\ last # NoProcess
  /\ tally.total < MaxProcessCalls
  /\ dump' \in Minidumps \ {dump}
  /\ last' = NoProcess
  /\ prev_status' = last.status
  /\ tally' = [NoTally EXCEPT !.total = tally.total]
  /\ UNCHANGED <<supplier_interrupt, known_modules, resolverVars, containVars,
                 cfiVars, loadVars, walkerVars, barrierVars>>

NextProcessor == Process \/ set_interrupt \/ NextMinidump

SpecProcessor == InitProcessor /\ [][NextProcessor]_vars

ProcessDone == last # NoProcess

\* The dump passes the checks made before the threads are looked at.
Processable == dump.readable /\ dump.header /\ dump.thread_list

\* The threads of the last call whose stack holds a frame in module name.
ThreadsIn(name) ==
  {i \in DOMAIN last.stacks :
     \E k \in DOMAIN last.stacks[i].frames : last.stacks[i].frames[k].module = name}

\* C15: within one Process call the supplier is asked at most once for a
\* module, and exactly once when the call returns ok and a frame falls in
\* the module; over the calls made on one dump it is never asked more often
\* than Process was called, and when all of them returned ok it was asked
\* once per call for every module that has frames.
C15_SupplierAskedOncePerCall ==
  ProcessDone =>
    \A n \in ModuleNames :
      /\ Requests(last.lookups, n) <= 1
      /\ (last.status = PROCESS_OK /\ ThreadsIn(n) # {}) =>
           Requests(last.lookups, n) = 1
      /\ tally.lookups[n] <= tally.calls
      /\ (tally.oks = tally.calls /\ ThreadsIn(n) # {}) =>
           tally.lookups[n] = tally.calls

\* Two Process calls on one dump, both ok; frames of two threads fall in a
\* module for which the supplier answered NOT_FOUND, and it was asked twice.
C15_Witness ==
  /\ ProcessDone
  /\ tally.calls = 2
  /\ tally.oks = 2
  /\ \E n \in ModuleNames :
       /\ Cardinality(ThreadsIn(n)) >= 2
       /\ tally.lookups[n] = 2
       /\ \E i \in DOMAIN last.lookups :
            last.lookups[i].module = n /\ last.lookups[i].answer = "NOT_FOUND"

\* C16: when the supplier answers INTERRUPT to a request made during
\* Process, the walk ends at the frame the request was made for, no further
\* request is made, and Process returns symbol_supplier_interrupted.
C16_SupplierInterrupt ==
  (ProcessDone /\ \E i \in DOMAIN last.lookups : last.lookups[i].answer = "INTERRUPT") =>
    /\ last.status = PROCESS_SYMBOL_SUPPLIER_INTERRUPTED
    /\ last.lookups[Len(last.lookups)].answer = "INTERRUPT"
    /\ \A i \in 1..(Len(last.lookups) - 1) : last.lookups[i].answer # "INTERRUPT"
    /\ LET stack == last.stacks[Len(last.stacks)].frames
       IN  stack[Len(stack)].module = last.lookups[Len(last.lookups)].module

\* The call before the interrupted one was made on the same dump and
\* returned ok.
C16_Witness ==
  /\ ProcessDone
  /\ tally.calls = 2
  /\ prev_status = PROCESS_OK
  /\ last.status = PROCESS_SYMBOL_SUPPLIER_INTERRUPTED

MemoryListEvents(i) ==
  {k \in DOMAIN last.stacks[i].events :
     last.stacks[i].events[k] \in {Event("GetStartOfStackMemoryRange"),
                                   Event("GetMemoryRegionForAddress")}}

Covering(modules, address) ==
  {m \in modules : m.base <= address /\ address < m.base + m.size}

\* C19: a frame that no loaded module covers and for whose instruction the
\* unloaded-module list returns a module carries that module; the unloaded
\* list is asked for an address only right after the loaded-module lookup
\* for it failed; and the memory list is never asked for a thread whose
\* GetMemory() returns a region.
C19_UnloadedModuleAttribution ==
  ProcessDone =>
    \A i \in DOMAIN last.stacks :
      LET frames == last.stacks[i].frames
          events == last.stacks[i].events
      IN  /\ \A k \in DOMAIN frames :
               (Covering(dump.modules, frames[k].instruction) = {}) =>
                 \A u \in Covering(dump.unloaded, frames[k].instruction) :
                   frames[k].module = u.name
          /\ \A k \in DOMAIN events :
               events[k][1] = "unloaded" =>
                 /\ k > 1
                 /\ events[k - 1] = <<"modules", events[k][2]>>
                 /\ Covering(dump.modules, events[k][2]) = {}
          /\ dump.threads[i].memory = "thread" => MemoryListEvents(i) = {}

\* A thread whose GetMemory() returns a region has a context frame in the
\* unloaded module and callers in loaded modules.
C19_Witness ==
  /\ ProcessDone
  /\ last.status = PROCESS_OK
  /\ \E i \in DOMAIN last.stacks :
       /\ dump.threads[i].memory = "thread"
       /\ Len(last.stacks[i].frames) > 1
       /\ \E u \in dump.unloaded : last.stacks[i].frames[1].module = u.name
       /\ \E m \in dump.modules : last.stacks[i].frames[2].module = m.name

\* C20: Process returns minidump_not_found for a dump that cannot be read;
\* else no_header when the header accessor returns null; else
\* no_thread_list when the thread-list accessor returns null, whatever the
\* system-info accessor returns.
C20_ErrorStatusPrecedence ==
  ProcessDone =>
    /\ ~dump.readable => last.status = PROCESS_ERROR_MINIDUMP_NOT_FOUND
    /\ (dump.readable /\ ~dump.header) =>
         last.status = PROCESS_ERROR_NO_MINIDUMP_HEADER
    /\ (dump.readable /\ dump.header /\ ~dump.thread_list) =>
         last.status = PROCESS_ERROR_NO_THREAD_LIST

\* The processor that returned no_header returns no_thread_list on its next
\* call, for a dump whose system-info accessor returns null as well.
C20_Witness ==
  /\ ProcessDone
  /\ prev_status = PROCESS_ERROR_NO_MINIDUMP_HEADER
  /\ last.status = PROCESS_ERROR_NO_THREAD_LIST
  /\ ~dump.system_info

\* A processor that returned an error status returns ok on a later call.
C20_WitnessRecovers ==
  /\ ProcessDone
  /\ prev_status = PROCESS_ERROR_MINIDUMP_NOT_FOUND
  /\ last.status = PROCESS_OK

---------------------------------------------------------------------------
(***************************************************************************)
(* pthread_barrier_t (src/common/android/testing/pthread_fixes.h).         *)
(*                                                                         *)
(* One barrier and MaxBarrierThreads threads.  A thread is "out" of        *)
(* pthread_barrier_wait or at one of its lines: "lock" (line 63),          *)
(* "decrement" (line 66), "serial" (lines 68-70), "wait" (line 75, before  *)
(* the mutex is released), "blocked" (inside pthread_cond_wait), "woken"   *)
(* (inside pthread_cond_wait, waiting for the mutex), "while" (line 76).   *)
(* A thread that has returned may call again.  count is unsigned; the      *)
(* model keeps CountBits bits of it.  barrier records the count the        *)
(* barrier was initialised with, the number of calls entered, the threads  *)
(* in the order they decremented count, the threads that have woken up     *)
(* with no broadcast, and every return: the thread, the value, and how     *)
(* many calls had been entered by then.                                    *)
(***************************************************************************)

PTHREAD_BARRIER_SERIAL_THREAD == 74565

CountModulus == 2 ^ CountBits

\* pthread_barrier_init(barrier, nullptr, n), lines 52-59.
InitBarrier ==
  /\ \E n \in 1..MaxBarrierThreads :
       /\ barrier_count = n
       /\ barrier = [init |-> n, entered |-> 0, decrements |-> <<>>,
                     spurious |-> {}, returns |-> <<>>]
  /\ barrier_mutex = 0
  /\ barrier_cond = {}
  /\ pc = [t \in BarrierThreads |-> "out"]
  /\ ResolverIdle /\ ContainIdle
  /\ CfiIdle /\ LoadIdle /\ WalkerIdle /\ ProcessorIdle

\* A barrier whose every return is PTHREAD_BARRIER_SERIAL_THREAD.
BarrierReturnAlwaysSerial(t, value) ==
  [barrier EXCEPT !.returns =
     Append(@, [thread |-> t, value |-> PTHREAD_BARRIER_SERIAL_THREAD,
                entered |-> barrier.entered])]

\* return value, lines 70 and 79, as the record of returns sees it.
BarrierReturn(t, value) ==
  [barrier EXCEPT !.returns =
     Append(@, [thread |-> t, value |-> value, entered |-> barrier.entered])]

\* A thread calls pthread_barrier_wait (line 61).
pthread_barrier_wait(t) ==
  /\ pc[t] = "out"
  /\ barrier.entered < MaxBarrierCalls
  /\ pc' = [pc EXCEPT ![t] = "lock"]
  /\ barrier' = [barrier EXCEPT !.entered = @ + 1]
  /\ UNCHANGED <<barrier_count, barrier_mutex, barrier_cond>>

\* pthread_mutex_lock(&barrier->mutex), line 63.
pthread_mutex_lock(t) ==
  /\ pc[t] = "lock"
  /\ barrier_mutex = 0
  /\ barrier_mutex' = t
  /\ pc' = [pc EXCEPT ![t] = "decrement"]
  /\ UNCHANGED <<barrier_count, barrier_cond, barrier>>

\* A decrement that stops at 0 instead of wrapping.
DecrementCountStopsAtZero(t) ==
  /\ pc[t] = "decrement"
  /\ barrier_count' = IF barrier_count = 0 THEN 0 ELSE barrier_count - 1
  /\ pc' = [pc EXCEPT ![t] = IF barrier_count' = 0 THEN "serial" ELSE "wait"]
  /\ barrier' = [barrier EXCEPT !.decrements = Append(@, t)]
  /\ UNCHANGED <<barrier_mutex, barrier_cond>>

\* if (--barrier->count == 0), line 66.
DecrementCount(t) ==
  /\ pc[t] = "decrement"
  /\ barrier_count' = (barrier_count - 1) % CountModulus
  /\ pc' = [pc EXCEPT ![t] = IF barrier_count' = 0 THEN "serial" ELSE "wait"]
  /\ barrier' = [barrier EXCEPT !.decrements = Append(@, t)]
  /\ UNCHANGED <<barrier_mutex, barrier_cond>>

\* The serial thread returning without pthread_cond_broadcast.
ReturnSerialNoBroadcast(t) ==
  /\ pc[t] = "serial"
  /\ barrier_mutex' = 0
  /\ pc' = [pc EXCEPT ![t] = "out"]
  /\ barrier' = BarrierReturn(t, PTHREAD_BARRIER_SERIAL_THREAD)
  /\ UNCHANGED <<barrier_count, barrier_cond>>

\* pthread_cond_broadcast, pthread_mutex_unlock and
\* return PTHREAD_BARRIER_SERIAL_THREAD, lines 68-70.  The mutex is held from
\* the broadcast to the unlock, so no other thread runs in between.
ReturnSerialThread(t) ==
  /\ pc[t] = "serial"
  /\ barrier_cond' = {}
  /\ barrier_mutex' = 0
  /\ pc' = [u \in BarrierThreads |->
              IF u = t THEN "out" ELSE IF u \in barrier_cond THEN "woken" ELSE pc[u]]
  /\ barrier' = BarrierReturn(t, PTHREAD_BARRIER_SERIAL_THREAD)
  /\ UNCHANGED barrier_count

\* pthread_cond_wait(&barrier->cond, &barrier->mutex), line 75: the mutex is
\* released and the thread blocks on cond, atomically.
pthread_cond_wait(t) ==
  /\ pc[t] = "wait"
  /\ barrier_mutex' = 0
  /\ barrier_cond' = barrier_cond \cup {t}
  /\ pc' = [pc EXCEPT ![t] = "blocked"]
  /\ UNCHANGED <<barrier_count, barrier>>

\* pthread_cond_wait may wake up with no broadcast.
SpuriousWakeup(t) ==
  /\ t \in barrier_cond
  /\ barrier_cond' = barrier_cond \ {t}
  /\ pc' = [pc EXCEPT ![t] = "woken"]
  /\ barrier' = [barrier EXCEPT !.spurious = @ \cup {t}]
  /\ UNCHANGED <<barrier_count, barrier_mutex>>

\* pthread_cond_wait returns with the mutex held, line 75.
CondWaitReturn(t) ==
  /\ pc[t] = "woken"
  /\ barrier_mutex = 0
  /\ barrier_mutex' = t
  /\ pc' = [pc EXCEPT ![t] = "while"]
  /\ UNCHANGED <<barrier_count, barrier_cond, barrier>>

\* A wait that does not test count again after pthread_cond_wait returns.
WhileCountNoRecheck(t) ==
  /\ pc[t] = "while"
  /\ pc' = [pc EXCEPT ![t] = "out"]
  /\ barrier_mutex' = 0
  /\ barrier' = BarrierReturn(t, 0)
  /\ UNCHANGED <<barrier_count, barrier_cond>>

\* while (barrier->count > 0), then pthread_mutex_unlock and return 0,
\* lines 76-79.
WhileCount(t) ==
  /\ pc[t] = "while"
  /\ IF barrier_count > 0
       THEN /\ pc' = [pc EXCEPT ![t] = "wait"]
            /\ UNCHANGED <<barrier_mutex, barrier>>
       ELSE /\ pc' = [pc EXCEPT ![t] = "out"]
            /\ barrier_mutex' = 0
            /\ barrier' = BarrierReturn(t, 0)
  /\ UNCHANGED <<barrier_count, barrier_cond>>

BarrierStep(t) ==
  \/ pthread_mutex_lock(t)
  \/ DecrementCount(t)
  \/ ReturnSerialThread(t)
  \/ pthread_cond_wait(t)
  \/ CondWaitReturn(t)
  \/ WhileCount(t)

NextBarrier ==
  /\ \E t \in BarrierThreads :
       pthread_barrier_wait(t) \/ BarrierStep(t) \/ SpuriousWakeup(t)
  /\ UNCHANGED <<resolverVars, containVars, cfiVars, loadVars, walkerVars,
                 processorVars>>

SpecBarrier == InitBarrier /\ [][NextBarrier]_vars

(***************************************************************************)
(* Claims about the barrier.                                               *)
(***************************************************************************)

SerialReturns ==
  {i \in 1..Len(barrier.returns) :
     barrier.returns[i].value = PTHREAD_BARRIER_SERIAL_THREAD}

\* C21: while exactly N threads have called pthread_barrier_wait on a
\* barrier initialised with count N, the threads that have returned are
\* distinct, each returned 0 or PTHREAD_BARRIER_SERIAL_THREAD, the one that
\* returned PTHREAD_BARRIER_SERIAL_THREAD is the N-th (the last) thread to
\* decrement count, and once all N have returned exactly one of them has
\* returned PTHREAD_BARRIER_SERIAL_THREAD and the other N - 1 have returned 0.
C21_SerialThread ==
  barrier.entered = barrier.init =>
    LET r == barrier.returns
        N == barrier.init
    IN  /\ Len(r) <= N
        /\ \A i, j \in 1..Len(r) : r[i].thread = r[j].thread => i = j
        /\ \A i \in 1..Len(r) :
             /\ r[i].value \in {0, PTHREAD_BARRIER_SERIAL_THREAD}
             /\ Len(barrier.decrements) = N
             /\ r[i].value = PTHREAD_BARRIER_SERIAL_THREAD
                  <=> r[i].thread = barrier.decrements[N]
        /\ Len(r) = N =>
             /\ Cardinality(SerialReturns) = 1
             /\ Cardinality({i \in 1..N : r[i].value = 0}) = N - 1

\* All MaxBarrierThreads threads have returned from a barrier of that count.
C21_Witness ==
  /\ barrier.init = MaxBarrierThreads
  /\ barrier.entered = barrier.init
  /\ Len(barrier.returns) = barrier.init

\* A barrier of count 1: the only caller is the serial thread.
C21_WitnessOne ==
  /\ barrier.init = 1
  /\ barrier.entered = 1
  /\ Len(barrier.returns) = 1
  /\ SerialReturns = {1}

\* C22: every return from pthread_barrier_wait happens when at least N
\* threads have entered pthread_barrier_wait, N being the count the barrier
\* was initialised with; spurious wake-ups of pthread_cond_wait included.
C22_NoEarlyReturn ==
  \A i \in 1..Len(barrier.returns) :
    barrier.returns[i].entered >= barrier.init

\* A thread that woke up with no broadcast has gone back to waiting and has
\* returned 0 after the others entered; it has not called again.
C22_Witness ==
  /\ barrier.init > 1
  /\ barrier.entered = barrier.init
  /\ \E i \in 1..Len(barrier.returns) :
       /\ barrier.returns[i].value = 0
       /\ barrier.returns[i].thread \in barrier.spurious

---------------------------------------------------------------------------
(* The chain of (file, line) pairs after ConstructInlineFrames. *)

\* C23 as stated: with inline frames built for n records, the innermost
\* frame holds the leaf (file, line), every other inline frame holds the call
\* site of the record one step deeper and the enclosing frame holds the call
\* site of the outermost record, a call site being the record's
\* call_site_line with the file of its call_site_file_id where it has one.
C23_ShiftChainOfRecords ==
  (InlinesBuilt /\ HitNodes # {}) =>
    LET n == Len(inlined_frames)
        Holds(f, in) ==
          /\ f.source_line = in.call_site_line
          /\ in.has_call_site_file_id =>
               f.source_file_name = FileName(in.call_site_file_id)
    IN  /\ inlined_frames[1].source_file_name = LeafFile
        /\ inlined_frames[1].source_line = LeafLine
        /\ \A k \in 2..n : Holds(inlined_frames[k], RecordAt(k - 1))
        /\ Holds(frame, RecordAt(n))

\* C23 amended: the same chain, a record's call site being its
\* call_site_line with the file of its call_site_file_id when the record has
\* one that files_ knows, and with the leaf file name otherwise.  The n + 1
\* frames then hold the leaf pair and the n call sites, one each.
C23_ShiftChain ==
  (InlinesBuilt /\ HitNodes # {}) =>
    LET n == Len(inlined_frames)
        Holds(f, in) ==
          /\ f.source_line = in.call_site_line
          /\ f.source_file_name = CallSiteFile(in)
    IN  /\ n = Cardinality(HitNodes)
        /\ inlined_frames[1].source_file_name = LeafFile
        /\ inlined_frames[1].source_line = LeafLine
        /\ \A k \in 2..n : Holds(inlined_frames[k], RecordAt(k - 1))
        /\ Holds(frame, RecordAt(n))

\* Three inline frames over a leaf line, with call sites that differ from
\* one record to the next and one record whose file id files_ does not know.
C23_Witness ==
  /\ InlinesBuilt
  /\ Len(inlined_frames) >= 3
  /\ LeafLines # {}
  /\ inlined_frames[2].source_line # inlined_frames[3].source_line
  /\ inlined_frames[3].source_line # frame.source_line
  /\ \E k \in 1..3 : /\ RecordAt(k).has_call_site_file_id
                     /\ RecordAt(k).call_site_file_id \notin files_

---------------------------------------------------------------------------
(* What LoadMapFromMemory leaves behind.  The module of InitLoad is fresh: *)
(* is_corrupt_ is false and no sub-map points anywhere.                    *)

\* C24: when LoadMapFromMemory has returned false, is_corrupt_ and the
\* sub-maps are as they were before the call.
C24_FailedLoadLeavesModule ==
  loaded = "false" => (is_corrupt_ = FALSE /\ map_offsets = <<>>)

\* C25: when LoadMapFromMemory has returned true, the i-th sub-map starts at
\* header + the sum of the sizes before it, taken in unbounded arithmetic,
\* and its slice of size[i] bytes ends inside the buffer (the offsets count
\* from the byte after the is_corrupt flag).
C25_ViewsInsideBuffer ==
  loaded = "true" =>
    \A i \in 1..kNumberMaps_ :
      /\ map_offsets[i] = header_size + SumTo(memory_buffer.map_sizes, i - 1)
      /\ SizeofBool + map_offsets[i] + memory_buffer.map_sizes[i] <= memory_buffer.size

---------------------------------------------------------------------------
(* The walker's index, over any sequence of calls. *)

\* C26: whatever calls have been made, in whatever order,
\* next_frame_index_ <= frame_count_ now and after every call; a call that
\* returned a frame read frames_ at an index below frame_count_ and a call
\* that returned null read nothing; and a GetCallerFrame that follows a
\* GetCallerFrame that returned null returns null and leaves
\* next_frame_index_ as it was.
C26_WalkerIndexInvariant ==
  /\ next_frame_index_ <= frame_count_
  /\ \A i \in 1..Len(walk) :
       /\ walk[i].next_frame_index_ <= frame_count_
       /\ IF walk[i].returned
          THEN walk[i].index >= 0 /\ walk[i].index < frame_count_
          ELSE walk[i].index = -1
  /\ \A i \in 1..(Len(walk) - 1) :
       (/\ walk[i].call = "GetCallerFrame"
        /\ ~walk[i].returned
        /\ walk[i + 1].call = "GetCallerFrame")
       => /\ ~walk[i + 1].returned
          /\ walk[i + 1].next_frame_index_ = walk[i].next_frame_index_

\* GetCallerFrame made before any GetContextFrame, then two GetCallerFrame
\* calls that return null, then GetContextFrame starts the list again.
C26_Witness ==
  /\ frame_count_ >= 1
  /\ Len(walk) >= 4
  /\ walk[1].call = "GetCallerFrame" /\ walk[1].returned
  /\ \E i \in 2..(Len(walk) - 2) :
       /\ walk[i].call = "GetCallerFrame" /\ ~walk[i].returned
       /\ walk[i + 1].call = "GetCallerFrame" /\ ~walk[i + 1].returned
       /\ walk[i + 2].call = "GetContextFrame" /\ walk[i + 2].returned
  /\ next_frame_index_ = 1

---------------------------------------------------------------------------
(* Liveness of the barrier.  A thread inside pthread_barrier_wait keeps     *)
(* being scheduled and gets the mutex if it is free again and again;        *)
(* nothing obliges a thread to call, nor pthread_cond_wait to wake up with  *)
(* no broadcast.                                                            *)

FairSpecBarrier ==
  /\ SpecBarrier
  /\ \A t \in BarrierThreads :
       SF_vars(BarrierStep(t) /\ UNCHANGED <<resolverVars, containVars, cfiVars,
                                             loadVars, walkerVars, processorVars>>)

\* A thread that is out of pthread_barrier_wait does not hold the mutex.
MutexReleasedOnReturn ==
  \A t \in BarrierThreads : pc[t] = "out" => barrier_mutex # t

\* C27 as stated: once N calls have been made, N calls eventually return,
\* whatever is called afterwards; and no thread that has returned holds the
\* mutex.
C27_AllCallsReturn ==
  /\ []MutexReleasedOnReturn
  /\ (barrier.entered >= barrier.init) ~> (Len(barrier.returns) >= barrier.init)

\* C27 amended: once N calls have been made, all N eventually return unless
\* a further call is made before they have; and no thread that has returned
\* holds the mutex.
C27_AllCallsReturnUnlessCalledAgain ==
  /\ []MutexReleasedOnReturn
  /\ (barrier.entered = barrier.init)
       ~> (Len(barrier.returns) = barrier.init \/ barrier.entered > barrier.init)

\* All the threads of a barrier of two or more have returned, one of them
\* after a wake-up with no broadcast, and the mutex is free.
C27_Witness ==
  /\ barrier.init >= 2
  /\ barrier.entered = barrier.init
  /\ Len(barrier.returns) = barrier.init
  /\ barrier.spurious # {}
  /\ barrier_mutex = 0
  /\ \A t \in BarrierThreads : pc[t] = "out"

---------------------------------------------------------------------------
(* The barrier after its round. *)

\* C28: count is the initial count less the decrements made, modulo the
\* range of unsigned: nothing restores it, it is 0 when N calls have
\* decremented it and the k-th call after them leaves it at 2^w - k.  None
\* of those further calls returns: at most one call ever returns
\* PTHREAD_BARRIER_SERIAL_THREAD and at most N calls return at all, however
\* many arrive (fewer than 2^w).
C28_SingleUse ==
  LET N == barrier.init
      k == Len(barrier.decrements) - N
  IN  /\ barrier_count = (0 - k) % CountModulus
      /\ k = 0 => barrier_count = 0
      /\ k > 0 => barrier_count = CountModulus - k
      /\ Cardinality(SerialReturns) <= 1
      /\ Len(barrier.returns) <= N
      /\ \A i \in 1..Len(barrier.returns) :
           \E j \in 1..N : j <= Len(barrier.decrements)
                           /\ barrier.decrements[j] = barrier.returns[i].thread

\* A barrier of 2 whose round has been released, and 2 further calls: both
\* are blocked on cond, count has wrapped, and only the round has returned.
C28_Witness ==
  /\ barrier.init = 2
  /\ Len(barrier.returns) = 2
  /\ Len(barrier.decrements) = 4
  /\ barrier_count = CountModulus - 2
  /\ Cardinality(barrier_cond) = 2

===========================================================================
